---- MODULE Spec2Model ----
(***************************************************************************)
(* TimeTree integration: the Auth Manager (TimeTreeAuth), the API          *)
(* transport (TimeTreeApiClient._request) and the per-calendar sync        *)
(* coordinator (TimeTreeCalendarCoordinator) as one state machine.         *)
(*                                                                         *)
(* The code is asyncio code: a coroutine runs without interruption from    *)
(* one suspending await to the next.  Every action below is one such run.  *)
(* The suspension points are the throttle (waiting for its lock, sleeping  *)
(* while holding it) and the HTTP round trips.  A response is a message in *)
(* flight: ServerRespond puts it into the task's resp field and the        *)
(* Resume* actions consume it.                                             *)
(***************************************************************************)
EXTENDS Integers, Sequences, FiniteSets, TLC

VARIABLES
    authenticated,   \* TimeTreeAuth._authenticated
    csrf_token,      \* TimeTreeAuth._csrf_token (Null = None)
    throttle_lock,   \* RequestThrottle._lock: the task holding it, or Free
    task,            \* task -> coroutine position, pending request/response
    events,          \* coordinator -> TimeTreeCalendarCoordinator._events
    last_sync_ms,    \* coordinator -> TimeTreeCalendarCoordinator._last_sync_ms
    waiters,         \* RequestThrottle._lock: the tasks waiting for it, first come first
    idle_time,       \* time.monotonic() - RequestThrottle._last_request, in ticks
    since_return,    \* history: ticks since acquire() returned last (Null: never)
    user_id,         \* the library client's TimeTreeApiClient._user_id (Null = None)
    uuid_calls       \* history: the number of uuid.uuid4() calls made so far

vars == <<authenticated, csrf_token, throttle_lock, task, events, last_sync_ms,
          waiters, idle_time, since_return, user_id, uuid_calls>>

-----------------------------------------------------------------------------
(* Bounds *)
MaxTime  == 2      \* epoch-ms values 1..MaxTime
MaxBatch == 2      \* events per fetched batch
MaxChunks == 3     \* responses the server spreads one paginated sync over
MinInterval == 2   \* RequestThrottle._min_interval in clock ticks; the code reads
                   \* elapsed time only to compare it with this, so idle_time and
                   \* since_return stop counting when they reach it

Null == -1         \* Python None in an int-or-None field

Coords  == {"c1"}         \* coordinators (one per calendar)
Callers == {"u1", "u2"}   \* other users of one client (setup, entity services)
Pagers  == {"p1"}         \* a user of the library client's paginated sync
Tasks   == Coords \cup Callers \cup Pagers
Entities == {"u1"}        \* the caller that is the calendar entity of coordinator c1
LibUsers == Pagers        \* the library's user also logs in and creates events
Free    == "free"

Ids        == {"A", "B"}        \* event ids (opaque strings)
Tokens     == {101, 102}        \* CSRF tokens the signin page may carry
\* the tokens served to task t: a sync never reads a token's value, so the
\* pages of the syncing tasks carry one; callers of the client see them differ
PageTokens(t) == IF t \in Callers THEN Tokens ELSE {101}
UpdatedAts == {Null} \cup (1..MaxTime)
DeletedAts == {Null} \cup {1}

\* models.Event, reduced to the fields the sync reads
Event == [id : Ids, deleted_at : DeletedAts, updated_at : UpdatedAts]

RECURSIVE SeqsUpTo(_, _)
SeqsUpTo(S, n) ==
    IF n = 0 THEN {<<>>}
    ELSE LET shorter == SeqsUpTo(S, n - 1)
         IN  shorter \cup {Append(s, e) : s \in {x \in shorter : Len(x) = n - 1}, e \in S}

Batches == SeqsUpTo(Event, MaxBatch)

\* what one chunk of a paginated answer holds: no event or one; the chunks are
\* told apart by the ids
Pages == {<<>>} \cup {<<e>> : e \in {x \in Event : x.deleted_at = Null /\ x.updated_at = Null}}
\* the "since" of an answer: absent or a timestamp
Sinces == {Null} \cup (1..MaxTime)

\* Python dict id -> Event: a function whose domain is the set of keys
EmptyStore == [k \in {} |-> 0]

-----------------------------------------------------------------------------
(* HTTP requests and responses *)

\* models.EventMutation, reduced to its times, zones and attendees
EventMutation(all_day, start_at, end_at, tz_name, attendees) ==
    [all_day |-> all_day, start_at |-> start_at, end_at |-> end_at,
     start_timezone |-> tz_name, end_timezone |-> tz_name, attendees |-> attendees]
NoMutation == EventMutation(FALSE, 0, 0, "", <<>>)

\* json_body of a request: <<>> for None, or <<body>>, the body being a dict
\* of the mutation's fields and the keys "id" (Null: not in the dict) and
\* "attendees" (has_attendees: in the dict)
NoBody == <<>>

NoReq  == [kind |-> "none", app |-> FALSE, csrf |-> Null, since |-> Null,
           body |-> NoBody]

\* a header that may be absent (headers.get gives None); its value is a string,
\* kept as the sequence of its characters
NoHeader       == [present |-> FALSE, value |-> <<>>]
Header(chars)  == [present |-> TRUE, value |-> chars]
\* Retry-After as servers send it: absent, empty, seconds, or an HTTP date
RetryAfterHeaders ==
    {NoHeader, Header(<<>>), Header(<<"7">>), Header(<<"1", "2">>),
     Header(<<"W", "e", "d">>)}

\* a response: status, the signin page's token, the Retry-After header, and the
\* JSON body of the events endpoint (a bare list, or an object with events,
\* chunk and since)
NoResp == [kind |-> "none", status |-> 0, token |-> Null, retry_after |-> NoHeader,
           events |-> <<>>, bare |-> FALSE, chunk |-> FALSE, since |-> Null,
           user |-> <<>>]

HttpResp(status)        == [NoResp EXCEPT !.kind = "http", !.status = status]
HtmlResp(status, token) == [HttpResp(status) EXCEPT !.token = token]
EventsResp(batch)       == [HttpResp(200) EXCEPT !.events = batch]
RateLimited(header)     == [HttpResp(429) EXCEPT !.retry_after = header]
ClientError             == [NoResp EXCEPT !.kind = "error"]
\* the user endpoint's object: <<>> without an "id" key, or <<id>>, the id
\* being a string kept as the sequence of its characters
UserResp(user)          == [HttpResp(200) EXCEPT !.user = user]
UserIds == {<<>>, <<(<<"7">>)>>, <<(<<"1", "2">>)>>, <<(<<"W", "e", "d">>)>>}

ApiStatuses == {200, 201, 204, 401, 403, 404, 429, 500}
\* every answer with one of these statuses, a 429 with each Retry-After form
ApiResponses ==
    {HttpResp(s) : s \in ApiStatuses \ {429}} \cup {RateLimited(h) : h \in RetryAfterHeaders}

\* the events endpoint answering in one piece, as an object without cursor
PlainBodies == {EventsResp(b) : b \in Batches}
\* the events endpoint answering a sync in chunks: an object with chunk and
\* since, or a bare list
ChunkedBodies ==
    {[EventsResp(b) EXCEPT !.chunk = ch, !.since = si] :
        b \in Batches, ch \in BOOLEAN, si \in Sinces}
\* the same for the n+1st answer to one paginated call; the server ends the
\* sync with answer MaxChunks at the latest
PagedBodies(n) ==
    {[EventsResp(pg) EXCEPT !.chunk = ch, !.since = si] :
        pg \in Pages, ch \in {c \in BOOLEAN : c => n + 1 < MaxChunks}, si \in Sinces}
      \cup {[EventsResp(pg) EXCEPT !.bare = TRUE] : pg \in Pages}

\* what the server (or the network) may answer to a request of each kind
Responses(req, tokens, bodies) ==
    CASE req.kind = "GET signin" ->
             {HtmlResp(200, tk) : tk \in tokens \cup {Null}} \cup {HttpResp(500), ClientError}
      [] req.kind = "PUT signin" ->
             {HttpResp(s) : s \in {200, 401, 403, 500}} \cup {ClientError}
      [] req.kind = "GET auths" ->
             {HttpResp(s) : s \in {200, 204, 401, 500}} \cup {ClientError}
      [] req.kind = "GET events" ->
             bodies \cup (ApiResponses \ {HttpResp(200)}) \cup {ClientError}
      [] req.kind = "GET user" ->
             {UserResp(id) : id \in UserIds} \cup (ApiResponses \ {HttpResp(200)})
                 \cup {ClientError}
      [] OTHER ->
             ApiResponses \cup {ClientError}

-----------------------------------------------------------------------------
(* State as one record, so that straight-line code composes *)

World == [authenticated |-> authenticated, csrf_token |-> csrf_token,
          throttle_lock |-> throttle_lock, task |-> task,
          events |-> events, last_sync_ms |-> last_sync_ms,
          waiters |-> waiters, idle_time |-> idle_time, since_return |-> since_return,
          user_id |-> user_id, uuid_calls |-> uuid_calls]

Commit(w) ==
    /\ authenticated' = w.authenticated
    /\ csrf_token'    = w.csrf_token
    /\ throttle_lock' = w.throttle_lock
    /\ task'          = w.task
    /\ events'        = w.events
    /\ last_sync_ms'  = w.last_sync_ms
    /\ waiters'       = w.waiters
    /\ idle_time'     = w.idle_time
    /\ since_return'  = w.since_return
    /\ user_id'       = w.user_id
    /\ uuid_calls'    = w.uuid_calls

\* A task at rest.  op is the operation it ran last and outcome how that ended.
\* req is the HTTP request in flight, resp the last response received.
\* History kept for the properties: log lists, for the current operation, the
\* calls made, the HTTP requests sent and how each call ended; before is the
\* coordinator's store and cursor when the operation was called.
\* exc holds the attributes of the exception _request raised last.
\* all_events and last_since are the locals of the paginated async_get_events
\* (its result when it has returned); history: asked lists the since argument
\* of each of its _request calls and got the answers these returned.
NoBefore == [events |-> EmptyStore, last_sync_ms |-> Null]
NoExc    == [status_code |-> Null, retry_after |-> Null]
IdleTask == [op |-> "none", stage |-> "main", pc |-> "idle", mutating |-> FALSE,
             since |-> Null, body |-> NoBody, req |-> NoReq, resp |-> NoResp,
             outcome |-> "none", exc |-> NoExc, log |-> <<>>, before |-> NoBefore,
             all_events |-> <<>>, last_since |-> Null, asked |-> <<>>, got |-> <<>>,
             args |-> <<>>, ret |-> <<>>]

Init ==
    /\ authenticated = FALSE
    /\ csrf_token    = Null
    /\ throttle_lock = Free
    /\ task          = [t \in Tasks |-> IdleTask]
    /\ events        = [c \in Coords |-> EmptyStore]
    /\ last_sync_ms  = [c \in Coords |-> Null]
    /\ waiters       = <<>>
    /\ idle_time     = 0
    /\ since_return  = Null
    /\ user_id       = Null
    /\ uuid_calls    = 0

-----------------------------------------------------------------------------
(* Python helpers *)

\* `x or 0` for an int-or-None x
OrZero(x) == IF x = Null \/ x = 0 THEN 0 ELSE x

\* truthiness of an int-or-None x
Truthy(x) == x # Null /\ x # 0

\* issubclass(exc, cls) in the exception hierarchy of exceptions.py
IsA(exc, cls) ==
    \/ exc = cls
    \/ exc = "RateLimitError" /\ cls = "ApiResponseError"

\* float(s) of a string s, for the strings a Retry-After header is drawn from:
\* a string of digits gives its value, any other raises ValueError
Digits == <<"0", "1", "2", "3", "4", "5", "6", "7", "8", "9">>
IsDigit(ch)    == \E i \in DOMAIN Digits : Digits[i] = ch
DigitValue(ch) == (CHOOSE i \in DOMAIN Digits : Digits[i] = ch) - 1
RECURSIVE Decimal(_)
Decimal(chars) ==
    IF chars = <<>> THEN 0
    ELSE 10 * Decimal(SubSeq(chars, 1, Len(chars) - 1)) + DigitValue(chars[Len(chars)])
float_raises(chars) == chars = <<>> \/ \E i \in DOMAIN chars : ~IsDigit(chars[i])
float(chars)        == Decimal(chars)
\* int(text) of the same texts
int_raises(chars)   == float_raises(chars)
int(chars)          == Decimal(chars)

\* the operations of the calendar entity's service handlers
EntityOps == {"entity.async_create_event", "entity.async_update_event",
              "entity.async_delete_event"}

\* mutant of Pop: the key is not removed
PopKeeps(store, key) == store

\* dict.pop(key, None) and dict[key] = value
Pop(store, key) == [k \in DOMAIN store \ {key} |-> store[k]]
Put(store, key, value) ==
    [k \in DOMAIN store \cup {key} |-> IF k = key THEN value ELSE store[k]]

Suspend(w, t, pc) == [w EXCEPT !.task[t].pc = pc]
Log(w, t, what)   == [w EXCEPT !.task[t].log = Append(@, what)]

\* the task's top-level operation ends: it returned (outcome "ok") or raised
Finish(w, t, outcome) ==
    [w EXCEPT !.task[t].pc = "idle", !.task[t].stage = "main",
              !.task[t].req = NoReq, !.task[t].outcome = outcome]

\* the task starts a top-level operation
Begin(w, t, op, stage) ==
    [w EXCEPT !.task[t] =
        [IdleTask EXCEPT !.op = op, !.stage = stage, !.pc = "running",
                         !.before = IF t \in Coords
                                    THEN [events |-> w.events[t],
                                          last_sync_ms |-> w.last_sync_ms[t]]
                                    ELSE NoBefore]]

\* TimeTreeApiClient.async_close: the client closes the HTTP session if it
\* made it itself; args holds _owns_session for the tasks that make a client
async_close(w, t) ==
    IF w.task[t].args.owns_session THEN Log(w, t, "session.close") ELSE w

-----------------------------------------------------------------------------
(* TimeTreeAuth: headers *)

\* Null in csrf: the header is not in the dict
_build_headers(w) == [app |-> TRUE, csrf |-> w.csrf_token]

get_headers_raises(w) == ~w.authenticated \/ w.csrf_token = Null

get_headers(w, mutating) ==
    LET headers == _build_headers(w)
    IN  IF mutating THEN [headers EXCEPT !.csrf = w.csrf_token] ELSE headers

\* mutant of mark_unauthenticated: the flag is left as it is
mark_unauthenticated_noop(w) == w

mark_unauthenticated(w) == [w EXCEPT !.authenticated = FALSE]

-----------------------------------------------------------------------------
(* TimeTreeCalendarCoordinator: the merge *)

\* mutant of is_deleted: the test inverted (deleted_at is None)
is_deleted_inverted(event) == event.deleted_at = Null

is_deleted(event) == event.deleted_at # Null

\* the for loop of _async_update_data, one iteration per batch element
RECURSIVE MergeLoop(_, _, _)
MergeLoop(store, latest_updated, batch) ==
    IF batch = <<>> THEN [store |-> store, latest_updated |-> latest_updated]
    ELSE LET event == Head(batch)
             store1 == IF is_deleted(event) THEN Pop(store, event.id)
                       ELSE Put(store, event.id, event)
             latest1 == IF Truthy(event.updated_at) /\ event.updated_at > latest_updated
                        THEN event.updated_at ELSE latest_updated
         IN  MergeLoop(store1, latest1, Tail(batch))

\* mutant of Merge: the cursor is taken from the batch alone, without the
\* comparison with the current cursor
MergeCursorFromBatch(w, c, batch) ==
    LET m == MergeLoop(w.events[c], 0, batch)
        cursor == IF m.latest_updated > 0 THEN m.latest_updated ELSE w.last_sync_ms[c]
    IN  Finish([w EXCEPT !.events[c] = m.store, !.last_sync_ms[c] = cursor], c, "ok")

\* _async_update_data after the fetch: merge, advance the cursor, return
Merge(w, c, batch) ==
    LET m == MergeLoop(w.events[c], OrZero(w.last_sync_ms[c]), batch)
        cursor == IF m.latest_updated > OrZero(w.last_sync_ms[c])
                  THEN m.latest_updated ELSE w.last_sync_ms[c]
    IN  Finish([w EXCEPT !.events[c] = m.store, !.last_sync_ms[c] = cursor], c, "ok")

-----------------------------------------------------------------------------
(* TimeTreeAuth.authenticate, first request *)

\* _fetch_csrf_token up to its await: GET /signin, sent without headers
_fetch_csrf_token(w, t, pc) ==
    Suspend(Log([w EXCEPT !.task[t].req = [NoReq EXCEPT !.kind = "GET signin"],
                          !.task[t].resp = NoResp], t, "GET signin"), t, pc)

authenticate(w, t) == _fetch_csrf_token(Log(w, t, "authenticate"), t, "fetch1")

-----------------------------------------------------------------------------
(* The sync call of the coordinator and what follows it *)

\* mutant of SyncRaised: a failed sync drops the local state to force a full
\* resync next time
SyncRaisedResync(w, c, exc) ==
    LET w1 == [w EXCEPT !.events[c] = EmptyStore, !.last_sync_ms[c] = Null]
    IN  IF w.task[c].stage = "sync1"
        THEN CASE IsA(exc, "AuthenticationError") ->
                      authenticate([w EXCEPT !.task[c].stage = "reauth"], c)
               [] IsA(exc, "ApiConnectionError") -> Finish(w1, c, "UpdateFailed")
               [] IsA(exc, "ApiResponseError")   -> Finish(w1, c, "UpdateFailed")
               [] OTHER -> Finish(w1, c, exc)
        ELSE Finish(w1, c, exc)

\* mutant of SyncRaised: every AuthenticationError triggers a reauthentication,
\* also the one of the retry
SyncRaisedRetryLoop(w, c, exc) ==
    CASE IsA(exc, "AuthenticationError") ->
             authenticate([w EXCEPT !.task[c].stage = "reauth"], c)
      [] IsA(exc, "ApiConnectionError") -> Finish(w, c, "UpdateFailed")
      [] IsA(exc, "ApiResponseError")   -> Finish(w, c, "UpdateFailed")
      [] OTHER -> Finish(w, c, exc)

\* an exception leaves async_get_events inside _async_update_data
SyncRaised(w, c, exc) ==
    IF w.task[c].stage = "sync1"
    THEN CASE IsA(exc, "AuthenticationError") ->
                  \* _try_reauth: authenticate with the stored credentials
                  authenticate([w EXCEPT !.task[c].stage = "reauth"], c)
           [] IsA(exc, "ApiConnectionError") -> Finish(w, c, "UpdateFailed")
           [] IsA(exc, "ApiResponseError")   -> Finish(w, c, "UpdateFailed")
           [] OTHER -> Finish(w, c, exc)
    ELSE \* the retry runs inside the except block: nothing catches here
         Finish(w, c, exc)

\* the library client's authenticate, from `user = await self.async_get_user()`
\* on: an exception that left the try block
GetUserRaised(w, t, exc) ==
    IF exc \in {"ValueError", "TypeError"}
    THEN Finish(Log([w EXCEPT !.user_id = Null], t, exc), t, "ok")
    ELSE Finish(Log(w, t, exc), t, exc)

\* async_get_user got its data: User.from_api_response, then int(user.id)
GetUserReturned(w, t, resp) ==
    IF resp.status = 204 THEN GetUserRaised(w, t, "TypeError")
    ELSE IF resp.user = <<>> THEN GetUserRaised(w, t, "KeyError")
    ELSE IF int_raises(resp.user[1]) THEN GetUserRaised(w, t, "ValueError")
    ELSE Finish(Log([w EXCEPT !.user_id = int(resp.user[1])], t, "returned"),
                t, "ok")

\* the calendar entity's service handlers after the client call returned:
\* await self.coordinator.async_request_refresh()
entity_request_refresh(w, t) ==
    Finish(Log(w, t, "async_request_refresh"), t, "ok")

\* async_create_event / async_update_event of a client got their data:
\* Event.from_api_response, and back in the caller
EventReturned(w, t, resp) ==
    IF resp.status = 204
    THEN \* data is None: data["id"] raises
         Finish(Log(w, t, "TypeError"), t, "TypeError")
    ELSE IF w.task[t].op \in EntityOps THEN entity_request_refresh(Log(w, t, "returned"), t)
    ELSE Finish(Log(w, t, "returned"), t, "ok")

\* _request raised exc
RequestRaised(w, t, exc) ==
    IF w.task[t].op = "refresh" THEN SyncRaised(Log(w, t, exc), t, exc)
    ELSE IF w.task[t].op = "lib.authenticate" THEN GetUserRaised(w, t, exc)
    ELSE IF w.task[t].op = "config_flow"
    THEN \* async_get_user raised: an except clause sets the error, finally
         \* closes the client, the form is shown again
         Finish(async_close(Log(w, t, exc), t), t, "form")
    ELSE \* also async_get_calendars in async_setup_entry, which has no handler
         Finish(Log(w, t, exc), t, exc)

-----------------------------------------------------------------------------
(* TimeTreeApiClient._request *)

RequestKind(tk) ==
    IF tk.op \in {"refresh", "get_events"} THEN "GET events"
    ELSE IF tk.op \in {"lib.authenticate", "config_flow"} THEN "GET user"
    ELSE IF tk.op \in {"entity.async_create_event", "lib.async_create_event"}
    THEN "POST events"
    ELSE IF tk.op = "entity.async_update_event" THEN "PUT event"
    ELSE IF tk.op = "entity.async_delete_event" THEN "DELETE event"
    ELSE IF tk.mutating THEN "POST api" ELSE "GET api"

\* after throttle.acquire(): headers, then the HTTP request goes out
_request_send(w, t) ==
    LET tk == w.task[t]
    IN  IF get_headers_raises(w)
        THEN RequestRaised(w, t, "AuthenticationError")
        ELSE LET headers == get_headers(w, tk.mutating)
                 req == [kind |-> RequestKind(tk), app |-> headers.app,
                         csrf |-> headers.csrf, since |-> tk.since, body |-> tk.body]
             IN  Suspend(Log([w EXCEPT !.task[t].req = req, !.task[t].resp = NoResp],
                             t, req.kind), t, "inflight")

\* acquire() returned to its caller: _request goes on to send; a task that
\* only acquires holds its slot until it goes on (pc "returned")
AcquireReturned(w, t) ==
    IF w.task[t].op = "acquire" THEN [Finish(w, t, "ok") EXCEPT !.task[t].pc = "returned"]
    ELSE _request_send(w, t)

\* mutant of acquire_return: _last_request is not written
acquire_return_no_stamp(w, t) ==
    AcquireReturned(Log([w EXCEPT !.since_return = 0, !.throttle_lock = Free],
                        t, "acquire"), t)

\* the end of acquire: _last_request = time.monotonic(), the lock is released
acquire_return(w, t) ==
    AcquireReturned(Log([w EXCEPT !.idle_time = 0, !.since_return = 0,
                                  !.throttle_lock = Free], t, "acquire"), t)

\* acquire inside `async with self._lock`; wait says whether `wait > 0`
acquire_locked(w, t, wait) ==
    IF wait THEN Suspend([w EXCEPT !.throttle_lock = t], t, "sleep")
    ELSE acquire_return(w, t)

\* RequestThrottle.acquire.  asyncio.Lock is fair: a caller takes the lock at
\* once only if it is free and nobody waits for it, otherwise it queues up
acquire(w, t, wait) ==
    IF w.throttle_lock # Free \/ w.waiters # <<>>
    THEN Suspend([w EXCEPT !.waiters = Append(@, t)], t, "lockwait")
    ELSE acquire_locked(w, t, wait)

\* `wait > 0` as acquire computes it from the clock
Wait(w) == MinInterval - w.idle_time > 0

\* mutant of cancelled: a sleeper that is cancelled keeps the lock
cancelled_keeps_lock(w, t) ==
    Finish(Log([w EXCEPT !.waiters = SelectSeq(@, LAMBDA u : u # t)],
               t, "CancelledError"), t, "CancelledError")

\* CancelledError reaches a task inside acquire: while it sleeps, `async with`
\* releases the lock; while it waits, it leaves the lock's queue
cancelled(w, t) ==
    Finish(Log([w EXCEPT !.throttle_lock = IF @ = t THEN Free ELSE @,
                         !.waiters = SelectSeq(@, LAMBDA u : u # t)],
               t, "CancelledError"), t, "CancelledError")

\* mutant of _request: the headers are asked for before the throttle
_request_headers_first(w, t, mutating, since, wait) ==
    IF get_headers_raises(w)
    THEN RequestRaised([w EXCEPT !.task[t].mutating = mutating, !.task[t].since = since],
                       t, "AuthenticationError")
    ELSE acquire([w EXCEPT !.task[t].mutating = mutating, !.task[t].since = since], t, wait)

\* _request up to its first await: await self._throttle.acquire()
_request(w, t, mutating, since, wait) ==
    acquire([w EXCEPT !.task[t].mutating = mutating, !.task[t].since = since], t, wait)

\* mutant of PageReturned: each chunk's events replace the ones held
PageReturnedKeepsLast(w, t, resp, wait) ==
    LET tk       == w.task[t]
        is_dict  == resp.status # 204 /\ ~resp.bare
        raw      == IF resp.status = 204 THEN <<>> ELSE resp.events
        has_more == is_dict /\ resp.chunk
        cursor   == IF is_dict THEN resp.since ELSE tk.since
        w1 == [w EXCEPT !.task[t].all_events = raw,
                        !.task[t].last_since =
                            IF is_dict /\ cursor # Null THEN cursor ELSE @,
                        !.task[t].got = Append(@, resp)]
    IN  IF has_more
        THEN _request([w1 EXCEPT !.task[t].asked = Append(@, cursor)],
                      t, FALSE, cursor, wait)
        ELSE Finish(Log(w1, t, "returned"), t, "ok")

\* the paginated async_get_events of the library client after a _request
\* returned data: a 204 gives None, neither an object nor a list
PageReturned(w, t, resp, wait) ==
    LET tk       == w.task[t]
        is_dict  == resp.status # 204 /\ ~resp.bare
        raw      == IF resp.status = 204 THEN <<>> ELSE resp.events
        has_more == is_dict /\ resp.chunk
        cursor   == IF is_dict THEN resp.since ELSE tk.since
        w1 == [w EXCEPT !.task[t].all_events = @ \o raw,
                        !.task[t].last_since =
                            IF is_dict /\ cursor # Null THEN cursor ELSE @,
                        !.task[t].got = Append(@, resp)]
    IN  IF has_more
        THEN \* next turn of the loop: the request carries cursor, or no since
             _request([w1 EXCEPT !.task[t].asked = Append(@, cursor)],
                      t, FALSE, cursor, wait)
        ELSE Finish(Log(w1, t, "returned"), t, "ok")

\* the paginated async_get_events of the library client, up to its first await
paginated_async_get_events(w, t, since, wait) ==
    _request(Log([w EXCEPT !.task[t].last_since = since,
                           !.task[t].asked = <<since>>], t, "async_get_events"),
             t, FALSE, since, wait)

async_get_events(w, t, since, wait) ==
    _request(Log(w, t, "async_get_events"), t, FALSE, since, wait)

\* the user ids a config entry exists for already
Configured == {<<"7">>}

\* async_step_user after async_get_user got its data: User.from_api_response,
\* then the else branch, and finally the client is closed
FlowUserReturned(w, t, resp) ==
    IF resp.status = 204 \/ resp.user = <<>>
    THEN \* None["id"], or no "id" key: except Exception takes it
         Finish(async_close(Log(w, t, IF resp.status = 204 THEN "TypeError"
                                      ELSE "KeyError"), t), t, "form")
    ELSE IF resp.user[1] \in Configured
    THEN \* _abort_if_unique_id_configured raises
         Finish(async_close(Log(w, t, "returned"), t), t, "AbortFlow")
    ELSE Finish(async_close(Log(w, t, "returned"), t), t, "entry")

\* async_setup_entry after async_get_calendars got its data: the calendar's
\* coordinator is made and refreshed for the first time; how that refresh
\* ends is how the setup ends
SetupCalendarsReturned(w, t, resp, wait) ==
    IF resp.status = 204
    THEN \* data is None: data.get("calendars", []) raises
         Finish(Log(w, t, "AttributeError"), t, "AttributeError")
    ELSE async_get_events([Log(w, t, "returned") EXCEPT !.task[t].op = "refresh",
                                                        !.task[t].stage = "sync1"],
                          t, w.last_sync_ms[t], wait)

\* _request returned data (the body of a 200, none for a 204)
RequestReturned(w, t, resp, wait) ==
    IF w.task[t].op = "get_events" THEN PageReturned(w, t, resp, wait)
    ELSE IF w.task[t].op = "setup" THEN SetupCalendarsReturned(w, t, resp, wait)
    ELSE IF w.task[t].op = "config_flow" THEN FlowUserReturned(w, t, resp)
    ELSE IF w.task[t].op = "refresh"
    THEN IF resp.status = 204
         THEN \* data is None: data.get("events", []) raises
              SyncRaised(Log(w, t, "AttributeError"), t, "AttributeError")
         ELSE Merge(Log(w, t, "returned"), t, resp.events)
    ELSE IF w.task[t].op = "lib.authenticate" THEN GetUserReturned(w, t, resp)
    ELSE IF w.task[t].op = "entity.async_delete_event"
    THEN entity_request_refresh(Log(w, t, "returned"), t)
    ELSE IF w.task[t].op \in EntityOps \cup {"lib.async_create_event"}
    THEN EventReturned(w, t, resp)
    ELSE IF resp.status = 204 THEN Finish(Log(w, t, "returned None"), t, "ok")
    ELSE Finish(Log(w, t, "returned"), t, "ok")


\* `float(retry_after) if retry_after else None`, retry_after being
\* resp.headers.get("Retry-After"): None and "" are falsy
retry_after_of(resp) ==
    LET h == resp.retry_after
    IN  IF h.present /\ h.value # <<>>
        THEN IF float_raises(h.value) THEN [raises |-> TRUE, value |-> Null]
             ELSE [raises |-> FALSE, value |-> float(h.value)]
        ELSE [raises |-> FALSE, value |-> Null]

\* the exception about to be raised gets its attributes
WithExc(w, t, status_code, retry_after) ==
    [w EXCEPT !.task[t].exc = [status_code |-> status_code, retry_after |-> retry_after]]

\* the response arrived: status handling of _request
_request_response(w, t, wait) ==
    LET resp == w.task[t].resp
        w0   == [w EXCEPT !.task[t].req = NoReq]
    IN  IF resp.kind = "error" THEN RequestRaised(w0, t, "ApiConnectionError")
        ELSE IF resp.status \in {401, 403}
        THEN RequestRaised(mark_unauthenticated(w0), t, "AuthenticationError")
        ELSE IF resp.status = 429
        THEN LET ra == retry_after_of(resp)
             IN  IF ra.raises
                 THEN \* float() raised: no except clause of _request takes it
                      RequestRaised(w0, t, "ValueError")
                 ELSE RequestRaised(WithExc(w0, t, 429, ra.value), t, "RateLimitError")
        ELSE IF resp.status = 204 THEN RequestReturned(w0, t, resp, wait)
        ELSE IF resp.status >= 400
        THEN RequestRaised(WithExc(w0, t, resp.status, Null), t, "ApiResponseError")
        ELSE RequestReturned(w0, t, resp, wait)

-----------------------------------------------------------------------------
(* TimeTreeAuth.authenticate, after each response *)

\* authenticate raised exc, or returned
AuthenticateRaised(w, t, exc) ==
    IF w.task[t].op = "refresh"
    THEN \* _try_reauth returns False for both exceptions authenticate raises
         Finish(Log(w, t, exc), t, "ConfigEntryAuthFailed")
    ELSE IF w.task[t].op = "setup"
    THEN \* async_setup_entry: the client is closed, then the error reported
         Finish(async_close(Log(w, t, exc), t), t,
                IF exc = "AuthenticationError" THEN "ConfigEntryAuthFailed"
                ELSE "ConfigEntryNotReady")
    ELSE IF w.task[t].op = "config_flow"
    THEN Finish(async_close(Log(w, t, exc), t), t, "form")
    ELSE Finish(Log(w, t, exc), t, exc)

\* mutant of AuthenticateReturned: the retry asks for a full sync (no since)
AuthenticateReturnedFullSync(w, t, wait) ==
    IF w.task[t].op = "refresh"
    THEN async_get_events([Log(w, t, "returned") EXCEPT !.task[t].stage = "sync2"],
                          t, Null, wait)
    ELSE Finish(Log(w, t, "returned"), t, "ok")

AuthenticateReturned(w, t, wait) ==
    IF w.task[t].op = "refresh"
    THEN \* _try_reauth returned True: the retry of the sync call
         async_get_events([Log(w, t, "returned") EXCEPT !.task[t].stage = "sync2"],
                          t, w.last_sync_ms[t], wait)
    ELSE IF w.task[t].op \in {"lib.authenticate", "config_flow"}
    THEN \* the library client's authenticate goes on: async_get_user; so does
         \* the config flow
         _request(Log(Log(w, t, "returned"), t, "async_get_user"), t, FALSE, Null, wait)
    ELSE IF w.task[t].op = "setup"
    THEN _request(Log(Log(w, t, "returned"), t, "async_get_calendars"),
                  t, FALSE, Null, wait)
    ELSE Finish(Log(w, t, "returned"), t, "ok")

\* _fetch_csrf_token after its await; "failed" names the exception raised
FetchCsrfResult(w, t) ==
    LET resp == w.task[t].resp
        w0   == [w EXCEPT !.task[t].req = NoReq]
    IN  IF resp.kind = "error" THEN [failed |-> "ApiConnectionError", w |-> w0]
        ELSE IF resp.status # 200 THEN [failed |-> "AuthenticationError", w |-> w0]
        ELSE IF resp.token = Null THEN [failed |-> "AuthenticationError", w |-> w0]
        ELSE [failed |-> "none", w |-> [w0 EXCEPT !.csrf_token = resp.token]]

\* _submit_credentials up to its await: PUT with the headers of _build_headers
_submit_credentials(w, t) ==
    LET headers == _build_headers(w)
        req == [kind |-> "PUT signin", app |-> headers.app,
                csrf |-> headers.csrf, since |-> Null, body |-> NoBody]
    IN  Suspend(Log([w EXCEPT !.task[t].req = req, !.task[t].resp = NoResp],
                    t, "PUT signin"), t, "put")

\* first signin page arrived
authenticate_fetch1(w, t) ==
    LET r == FetchCsrfResult(w, t)
    IN  IF r.failed # "none" THEN AuthenticateRaised(r.w, t, r.failed)
        ELSE _submit_credentials(r.w, t)

\* mutant of authenticate_put: no second fetch, the login alone authenticates
authenticate_put_no_refetch(w, t) ==
    LET resp == w.task[t].resp
        w0   == [w EXCEPT !.task[t].req = NoReq]
    IN  IF resp.kind = "error" THEN AuthenticateRaised(w0, t, "ApiConnectionError")
        ELSE IF resp.status = 200
        THEN AuthenticateReturned([w0 EXCEPT !.authenticated = TRUE], t, FALSE)
        ELSE AuthenticateRaised(w0, t, "AuthenticationError")

\* answer to the credential PUT arrived
authenticate_put(w, t) ==
    LET resp == w.task[t].resp
        w0   == [w EXCEPT !.task[t].req = NoReq]
    IN  IF resp.kind = "error" THEN AuthenticateRaised(w0, t, "ApiConnectionError")
        ELSE IF resp.status = 200 THEN _fetch_csrf_token(w0, t, "fetch2")
        ELSE AuthenticateRaised(w0, t, "AuthenticationError")

\* second signin page arrived
authenticate_fetch2(w, t, wait) ==
    LET r == FetchCsrfResult(w, t)
    IN  IF r.failed # "none" THEN AuthenticateRaised(r.w, t, r.failed)
        ELSE AuthenticateReturned([r.w EXCEPT !.authenticated = TRUE], t, wait)

-----------------------------------------------------------------------------
(* TimeTreeAuth.validate_session *)

validate_session(w, t) ==
    LET headers == _build_headers(w)
        req == [kind |-> "GET auths", app |-> headers.app,
                csrf |-> headers.csrf, since |-> Null, body |-> NoBody]
    IN  Suspend(Log([w EXCEPT !.task[t].req = req, !.task[t].resp = NoResp],
                    t, "GET auths"), t, "validate")

\* mutant of validate_session_response: a failed validation raises but leaves
\* the flag as it is
validate_session_response_keeps_flag(w, t) ==
    LET resp == w.task[t].resp
        w0   == [w EXCEPT !.task[t].req = NoReq]
    IN  IF resp.kind = "error"
        THEN Finish(Log(w0, t, "ApiConnectionError"), t, "ApiConnectionError")
        ELSE IF resp.status = 200
        THEN Finish(Log([w0 EXCEPT !.authenticated = TRUE], t, "returned"), t, "ok")
        ELSE Finish(Log(w0, t, "AuthenticationError"), t, "AuthenticationError")

validate_session_response(w, t) ==
    LET resp == w.task[t].resp
        w0   == [w EXCEPT !.task[t].req = NoReq]
    IN  IF resp.kind = "error"
        THEN Finish(Log(w0, t, "ApiConnectionError"), t, "ApiConnectionError")
        ELSE IF resp.status = 200
        THEN Finish(Log([w0 EXCEPT !.authenticated = TRUE], t, "returned"), t, "ok")
        ELSE Finish(Log([w0 EXCEPT !.authenticated = FALSE], t, "AuthenticationError"),
                    t, "AuthenticationError")

-----------------------------------------------------------------------------
(* Actions: one run of a coroutine from one suspension point to the next *)

Idle(t)     == task[t].pc = "idle"
Arrived(t)  == task[t].resp # NoResp
Awaiting(t) == task[t].req # NoReq /\ task[t].resp = NoResp

\* the coordinator's refresh() is called: _async_update_data up to its first await
StartRefresh(c) ==
    /\ Idle(c)
    /\ \E wait \in BOOLEAN :
         Commit(async_get_events(Begin(World, c, "refresh", "sync1"), c,
                                 last_sync_ms[c], wait))

\* an API call of another user of the client (GET or a mutating verb)
StartRequest(t) ==
    /\ Idle(t)
    /\ \E mutating \in BOOLEAN, wait \in BOOLEAN :
         Commit(_request(Log(Begin(World, t, "request", "main"), t, "_request"),
                         t, mutating, Null, wait))

StartAuthenticate(t) ==
    /\ Idle(t)
    /\ Commit(authenticate(Begin(World, t, "authenticate", "main"), t))

StartValidate(t) ==
    /\ Idle(t)
    /\ Commit(validate_session(Log(Begin(World, t, "validate", "main"), t,
                                   "validate_session"), t))

\* the throttle's lock became free for a task waiting for it
LockGranted(t) ==
    /\ task[t].pc = "lockwait"
    /\ throttle_lock = Free
    /\ waiters # <<>> /\ Head(waiters) = t
    /\ \E wait \in BOOLEAN :
         Commit(acquire_locked([World EXCEPT !.waiters = Tail(@)], t, wait))

\* the throttle's sleep is over: _last_request is set, the lock released
ThrottleWake(t) ==
    /\ task[t].pc = "sleep"
    /\ throttle_lock = t
    /\ Commit(acquire_return(World, t))

\* the bodies the events endpoint serves to task t
Bodies(t) == IF t \in Pagers THEN PagedBodies(Len(task[t].got)) ELSE PlainBodies

\* the server answers a request in flight, or the transport fails
ServerRespond(t) ==
    /\ Awaiting(t)
    /\ \E resp \in Responses(task[t].req, PageTokens(t), Bodies(t)) :
         task' = [task EXCEPT ![t].resp = resp]
    /\ UNCHANGED <<authenticated, csrf_token, throttle_lock, events, last_sync_ms,
                   waiters, idle_time, since_return, user_id, uuid_calls>>

\* the same, by a server that may split a sync into chunks
ServerRespondChunked(t) ==
    /\ Awaiting(t)
    /\ \E resp \in Responses(task[t].req, PageTokens(t), ChunkedBodies) :
         task' = [task EXCEPT ![t].resp = resp]
    /\ UNCHANGED <<authenticated, csrf_token, throttle_lock, events, last_sync_ms,
                   waiters, idle_time, since_return, user_id, uuid_calls>>

\* a user of the library client calls its paginated async_get_events
StartGetEvents(t) ==
    /\ Idle(t)
    /\ \E since \in Sinces, wait \in BOOLEAN :
         Commit(paginated_async_get_events(Begin(World, t, "get_events", "main"),
                                           t, since, wait))

ResumeRequest(t) ==
    /\ task[t].pc = "inflight" /\ Arrived(t)
    /\ \E wait \in BOOLEAN : Commit(_request_response(World, t, wait))

ResumeFetch1(t) ==
    /\ task[t].pc = "fetch1" /\ Arrived(t)
    /\ Commit(authenticate_fetch1(World, t))

ResumePut(t) ==
    /\ task[t].pc = "put" /\ Arrived(t)
    /\ Commit(authenticate_put(World, t))

ResumeFetch2(t) ==
    /\ task[t].pc = "fetch2" /\ Arrived(t)
    /\ \E wait \in BOOLEAN : Commit(authenticate_fetch2(World, t, wait))

ResumeValidate(t) ==
    /\ task[t].pc = "validate" /\ Arrived(t)
    /\ Commit(validate_session_response(World, t))

-----------------------------------------------------------------------------
(* The throttle with a clock.  Spec and SpecClient let no time pass: whether
   min_interval has elapsed is an input of their steps.  Here the clock ticks
   and acquire computes its wait from it. *)

Saturated(x) == IF x = Null \/ x >= MinInterval THEN x ELSE x + 1

\* one tick of time.monotonic()
Tick ==
    /\ idle_time < MinInterval \/ (since_return # Null /\ since_return < MinInterval)
    /\ idle_time'    = Saturated(idle_time)
    /\ since_return' = Saturated(since_return)
    /\ UNCHANGED <<authenticated, csrf_token, throttle_lock, task, events,
                   last_sync_ms, waiters, user_id, uuid_calls>>

\* a task calls acquire()
StartAcquire(t) ==
    /\ Idle(t)
    /\ Commit(acquire(Begin(World, t, "acquire", "main"), t, Wait(World)))

\* the lock is handed to the task that waited longest
LockGrantedAt(t) ==
    /\ task[t].pc = "lockwait"
    /\ throttle_lock = Free
    /\ waiters # <<>> /\ Head(waiters) = t
    /\ Commit(acquire_locked([World EXCEPT !.waiters = Tail(@)], t, Wait(World)))

\* asyncio.sleep(wait) is over: nothing resets the clock while the lock is
\* held, so the wait computed at the start has passed when idle_time has
\* reached min_interval
WakeAt(t) ==
    /\ task[t].pc = "sleep"
    /\ throttle_lock = t
    /\ idle_time >= MinInterval
    /\ Commit(acquire_return(World, t))

\* the task is cancelled while it waits for the lock or sleeps
Cancel(t) ==
    /\ task[t].pc \in {"lockwait", "sleep"}
    /\ Commit(cancelled(World, t))

\* the caller goes on after acquire() returned
GoOn(t) ==
    /\ task[t].pc = "returned"
    /\ Commit(Suspend(World, t, "idle"))

-----------------------------------------------------------------------------
(* Specifications *)

\* one coordinator alone on its client
Next ==
    \E c \in Coords :
        \/ StartRefresh(c)
        \/ ThrottleWake(c)
        \/ ServerRespond(c)
        \/ ResumeRequest(c)
        \/ ResumeFetch1(c)
        \/ ResumePut(c)
        \/ ResumeFetch2(c)

Spec == Init /\ [][Next]_vars

\* several users of one client, interleaved at their awaits
NextClient ==
    \E t \in Callers :
        \/ StartRequest(t)
        \/ StartAuthenticate(t)
        \/ StartValidate(t)
        \/ LockGranted(t)
        \/ ThrottleWake(t)
        \/ ServerRespond(t)
        \/ ResumeRequest(t)
        \/ ResumeFetch1(t)
        \/ ResumePut(t)
        \/ ResumeFetch2(t)
        \/ ResumeValidate(t)

SpecClient == Init /\ [][NextClient]_vars

\* the coordinator with a server that may answer a sync in chunks
NextChunked ==
    \E c \in Coords :
        \/ StartRefresh(c)
        \/ ThrottleWake(c)
        \/ ServerRespondChunked(c)
        \/ ResumeRequest(c)
        \/ ResumeFetch1(c)
        \/ ResumePut(c)
        \/ ResumeFetch2(c)

SpecChunked == Init /\ [][NextChunked]_vars

\* a user of the library client: login, then paginated syncs
NextPaged ==
    \E t \in Pagers :
        \/ StartAuthenticate(t)
        \/ StartGetEvents(t)
        \/ ThrottleWake(t)
        \/ ServerRespond(t)
        \/ ResumeRequest(t)
        \/ ResumeFetch1(t)
        \/ ResumePut(t)
        \/ ResumeFetch2(t)

SpecPaged == Init /\ [][NextPaged]_vars

\* tasks that call acquire() on one throttle while time passes
NextThrottle ==
    \/ Tick
    \/ \E t \in Tasks :
          \/ StartAcquire(t)
          \/ LockGrantedAt(t)
          \/ WakeAt(t)
          \/ Cancel(t)
          \/ GoOn(t)

SpecThrottle == Init /\ [][NextThrottle]_vars

\* the clock advances, and the event loop runs a task whose lock or timer is
\* ready
SpecThrottleLive ==
    /\ SpecThrottle
    /\ WF_vars(Tick)
    /\ \A t \in Tasks : WF_vars(LockGrantedAt(t)) /\ WF_vars(WakeAt(t))

\* an API call of a user of the client while time passes: the throttle
\* computes its wait from the clock
StartRequestAt(t) ==
    /\ Idle(t)
    /\ \E mutating \in BOOLEAN :
         Commit(_request(Log(Begin(World, t, "request", "main"), t, "_request"),
                         t, mutating, Null, Wait(World)))

\* API calls and logins on one client while the clock ticks
NextTimed ==
    \/ Tick
    \/ \E t \in Callers :
          \/ StartRequestAt(t)
          \/ StartAuthenticate(t)
          \/ LockGrantedAt(t)
          \/ WakeAt(t)
          \/ ServerRespond(t)
          \/ ResumeRequest(t)
          \/ ResumeFetch1(t)
          \/ ResumePut(t)
          \/ ResumeFetch2(t)

SpecTimed == Init /\ [][NextTimed]_vars

\* the coordinators of two calendars of one config entry: async_setup_entry
\* gives every coordinator the same client
Sharers == {"c1", "c2"}

\* the client logged in with the token 101 some time ago and the server has
\* dropped that session since
InitShared ==
    /\ authenticated = TRUE
    /\ csrf_token    = 101
    /\ throttle_lock = Free
    /\ task          = [t \in Sharers |-> IdleTask]
    /\ events        = [c \in Sharers |-> EmptyStore]
    /\ last_sync_ms  = [c \in Sharers |-> Null]
    /\ waiters       = <<>>
    /\ idle_time     = 0
    /\ since_return  = Null
    /\ user_id       = Null
    /\ uuid_calls    = 0

\* A server that accepts the stored credentials: the signin page carries the
\* token 102, the login succeeds, and an API request gets its events if it
\* was sent in a session begun by such a login, a 401 if in the dropped one.
\* The client sends the token it holds with every API request, and holds 102
\* while authenticated only after a login, so the token tells the two apart.
AcceptingResponses(req) ==
    CASE req.kind = "GET signin" -> {HtmlResp(200, 102)}
      [] req.kind = "PUT signin" -> {HttpResp(200)}
      [] OTHER -> IF req.csrf = 102
                  THEN {EventsResp(<<>>),
                        EventsResp(<<[id |-> "A", deleted_at |-> Null, updated_at |-> 1]>>)}
                  ELSE {HttpResp(401)}

ServerAccepts(c) ==
    /\ Awaiting(c)
    /\ \E resp \in AcceptingResponses(task[c].req) :
         task' = [task EXCEPT ![c].resp = resp]
    /\ UNCHANGED <<authenticated, csrf_token, throttle_lock, events, last_sync_ms,
                   waiters, idle_time, since_return, user_id, uuid_calls>>

NextShared ==
    \E c \in Sharers :
        \/ StartRefresh(c)
        \/ LockGranted(c)
        \/ ThrottleWake(c)
        \/ ServerAccepts(c)
        \/ ResumeRequest(c)
        \/ ResumeFetch1(c)
        \/ ResumePut(c)
        \/ ResumeFetch2(c)

SpecShared == InitShared /\ [][NextShared]_vars

\* the task that runs the config flow
Flows == {"u2"}

\* TimeTreeApiClient(session): args holds whether the client made its session
NewClient(w, t, owns_session) ==
    [w EXCEPT !.task[t].args = [owns_session |-> owns_session]]
Unused == \A t \in Tasks : task[t].op = "none"

\* the host sets up the config entry: async_setup_entry up to its first await.
\* The setup, the config flow and a user of the library each make a client of
\* their own, so a behaviour follows one of them
SetupEntry(c) ==
    /\ Unused
    /\ Commit(authenticate(Log(NewClient(Begin(World, c, "setup", "main"), c, TRUE),
                               c, "async_setup_entry"), c))

\* the user submits the form of the config flow: async_step_user (and
\* async_step_reauth_confirm, which differs in what it returns at the end)
ConfigFlow(t) ==
    /\ Unused
    /\ Commit(authenticate(Log(NewClient(Begin(World, t, "config_flow", "main"), t, TRUE),
                               t, "async_step_user"), t))

\* a user of the client, made with a session of the user's or without one,
\* closes it
ClientClose(t) ==
    /\ Unused
    /\ \E owns_session \in BOOLEAN :
         Commit(Finish(async_close(NewClient(Begin(World, t, "async_close", "main"),
                                             t, owns_session), t), t, "ok"))

NextSetup ==
    \/ \E c \in Coords : SetupEntry(c)
    \/ \E t \in Flows : ConfigFlow(t)
    \/ \E t \in Pagers : ClientClose(t)
    \/ \E t \in Coords \cup Flows :
          \/ ThrottleWake(t)
          \/ ServerRespond(t)
          \/ ResumeRequest(t)
          \/ ResumeFetch1(t)
          \/ ResumePut(t)
          \/ ResumeFetch2(t)

SpecSetup == Init /\ [][NextSetup]_vars

-----------------------------------------------------------------------------
(* calendar.py: dates, zones and datetimes *)

\* Epoch times of the calendar view are counted in hours: one unit stands for
\* 3 600 000 epoch milliseconds.
Day    == 24      \* timedelta(days=1)
MaxDay == 3       \* events and query windows lie in the days 1..MaxDay
Hours  == {0, 11} \* the hours of a day (UTC) at which events start and end

\* the IANA zones events are stored with: three of fixed offset, and one that
\* moves its clock forward by an hour at DstStart
Zones    == {"UTC", "Europe/Berlin", "Etc/GMT+12", "Pacific/Kiritimati"}
DstStart == 2 * Day + 1

\* ZoneInfo(zone).utcoffset at the instant u (as fromtimestamp applies it)
utcoffset(zone, u) ==
    CASE zone = "UTC"                -> 0
      [] zone = "Europe/Berlin"      -> IF u < DstStart THEN 1 ELSE 2
      [] zone = "Etc/GMT+12"         -> 0 - 12
      [] zone = "Pacific/Kiritimati" -> 14

\* ZoneInfo(zone).utcoffset of a wall time (fold=0): a wall time the clock
\* skipped is read with the offset before the change
wall_utcoffset(zone, wall) ==
    CASE zone = "UTC"                -> 0
      [] zone = "Europe/Berlin"      -> IF wall < DstStart + 1 THEN 1
                                        ELSE IF wall >= DstStart + 2 THEN 2 ELSE 1
      [] zone = "Etc/GMT+12"         -> 0 - 12
      [] zone = "Pacific/Kiritimati" -> 14

\* datetime.date and aware datetime.datetime values. A datetime is its wall
\* time and its tzinfo, as in Python; a date is a day number.
Date(day)            == [is_datetime |-> FALSE, day |-> day, wall |-> 0, zone |-> ""]
Datetime(wall, zone) == [is_datetime |-> TRUE, day |-> 0, wall |-> wall, zone |-> zone]

fromtimestamp(u, zone) == Datetime(u + utcoffset(zone, u), zone)
timestamp(dt)          == dt.wall - wall_utcoffset(dt.zone, dt.wall)
astimezone(dt, zone)   == fromtimestamp(timestamp(dt), zone)
date(dt)               == Date(dt.wall \div Day)
\* datetime + timedelta moves the wall time; date + timedelta(days=n)
plus(dt, hours)        == Datetime(dt.wall + hours, dt.zone)
plus_days(d, n)        == Date(d.day + n)
\* datetime.combine(d, datetime.min.time(), tzinfo=ZoneInfo("UTC"))
combine(d)             == Datetime(d.day * Day, "UTC")

\* a < b and a - b of two dates, or of two aware datetimes: by wall time when
\* both have the same tzinfo, by instant otherwise
Lt(a, b) ==
    IF ~a.is_datetime THEN a.day < b.day
    ELSE IF a.zone = b.zone THEN a.wall < b.wall
    ELSE timestamp(a) < timestamp(b)
Le(a, b) == ~Lt(b, a)
Minus(a, b) ==
    IF ~a.is_datetime THEN (a.day - b.day) * Day
    ELSE IF a.zone = b.zone THEN a.wall - b.wall
    ELSE timestamp(a) - timestamp(b)

-----------------------------------------------------------------------------
(* calendar.py: the stored events and their recurrence strings *)

\* An entry of Event.recurrences, by what the code reads of the string: its
\* prefix, and what the parsers make of the rest.
\*   "RRULE:"  parses: rrulestr accepts the rule (FREQ=DAILY;INTERVAL=interval,
\*             with COUNT=count if count > 0 and UNTIL as until says)
\*   "EXDATE:" parts: the comma-separated values
\*   ""        any other string: the loop passes over it
NoUntil == [form |-> "none", day |-> 0]
\* UNTIL=<date> as written: "bare" (20210429), "utc" (20210429T000000Z) or
\* "local" (20210429T000000, a time without zone)
Until(form, day) == [form |-> form, day |-> day]
RRule(parses, interval, count, until) ==
    [prefix |-> "RRULE:", parses |-> parses, interval |-> interval,
     count |-> count, until |-> until, parts |-> <<>>]
ExDate(parts) ==
    [prefix |-> "EXDATE:", parses |-> FALSE, interval |-> 0, count |-> 0,
     until |-> NoUntil, parts |-> parts]
OtherEntry ==
    [prefix |-> "", parses |-> FALSE, interval |-> 0, count |-> 0,
     until |-> NoUntil, parts |-> <<>>]

\* one value of an EXDATE list: blank, not a date ("bad"), a number too large
\* for a date ("overflow"), a UTC time (suffix Z) or a time without zone;
\* hour is the time it names
Part(kind, hour) == [kind |-> kind, hour |-> hour]

Daily       == RRule(TRUE, 1, 0, NoUntil)
EveryOther  == RRule(TRUE, 2, 0, NoUntil)
DailyTwice  == RRule(TRUE, 1, 2, NoUntil)
DailyUntil(form) == RRule(TRUE, 1, 0, Until(form, 2))
BadRule     == RRule(FALSE, 0, 0, NoUntil)
\* the second day's midnight, as a UTC time and as a time without zone
SkipUtc     == Part("utc", 2 * Day)
SkipLocal   == Part("naive", 2 * Day)
BadPart     == Part("bad", 0)
BlankPart   == Part("blank", 0)
HugePart    == Part("overflow", 0)

Recurrences ==
    { <<>>, <<Daily>>, <<EveryOther, Daily>>, <<DailyTwice>>,
      <<DailyUntil("bare")>>, <<DailyUntil("local")>>,
      <<BadRule>>, <<Daily, BadRule>>, <<BadRule, Daily>>,
      <<ExDate(<<SkipUtc>>)>>, <<OtherEntry>>,
      <<Daily, ExDate(<<SkipUtc>>)>>, <<Daily, ExDate(<<SkipLocal>>)>>,
      <<ExDate(<<BadPart, BlankPart, SkipUtc>>), Daily>>,
      <<ExDate(<<SkipUtc>>), Daily, BadRule>>,
      <<Daily, ExDate(<<HugePart>>)>>, <<BadRule, ExDate(<<HugePart>>)>> }

\* the epoch times events carry
Instants == {Day * d + h : d \in 1..MaxDay, h \in Hours}
\* the zones an event is stored with: one for both ends, or the two far ends
ZonePairs ==
    {<<z, z>> : z \in Zones}
      \cup {<<"Etc/GMT+12", "Pacific/Kiritimati">>, <<"Pacific/Kiritimati", "Etc/GMT+12">>}

\* models.Event, reduced to the fields calendar.py reads
StoredEvent(id, all_day, start_at, end_at, zones, recurrences) ==
    [id |-> id, all_day |-> all_day, start_at |-> start_at, end_at |-> end_at,
     start_timezone |-> zones[1], end_timezone |-> zones[2],
     recurrences |-> recurrences]
StoredEvents(id) ==
    {StoredEvent(id, all_day, start_at, end_at, zones, recurrences) :
        all_day \in BOOLEAN, start_at \in Instants, end_at \in Instants,
        zones \in ZonePairs, recurrences \in Recurrences}

\* Event.is_recurring
is_recurring(event) ==
    \E i \in DOMAIN event.recurrences : event.recurrences[i].prefix = "RRULE:"

-----------------------------------------------------------------------------
(* calendar.py: mapping helpers *)

\* CalendarEvent, reduced to uid, start and end. The uid of a mapped event is
\* the event id (suffix Null); the uid of an expanded occurrence is the id,
\* "_" and the epoch time of the occurrence's start.
Uid(id, suffix) == [id |-> id, suffix |-> suffix]
CalendarEvent(start, end, uid) == [start |-> start, end |-> end, uid |-> uid]

_sort_key(ev) == IF ev.start.is_datetime THEN ev.start ELSE combine(ev.start)

_to_datetime(event, use_end) ==
    LET ts_ms   == IF use_end THEN event.end_at ELSE event.start_at
        tz_name == IF use_end THEN event.end_timezone ELSE event.start_timezone
    IN  astimezone(fromtimestamp(ts_ms, "UTC"), tz_name)

_ts_to_date(ts_ms, tz_name) == date(fromtimestamp(ts_ms, tz_name))

_map_event(event) ==
    IF event.all_day
    THEN LET start == _ts_to_date(event.start_at, event.start_timezone)
             end   == _ts_to_date(event.end_at, event.end_timezone)
         IN  CalendarEvent(start,
                           IF Le(end, start) THEN plus_days(start, 1) ELSE end,
                           Uid(event.id, Null))
    ELSE CalendarEvent(_to_datetime(event, FALSE), _to_datetime(event, TRUE),
                       Uid(event.id, Null))

\* list.sort(key=_sort_key): stable, comparing keys with <
RECURSIVE Insert(_, _)
Insert(ev, sorted) ==
    IF sorted = <<>> THEN <<ev>>
    ELSE IF Lt(_sort_key(ev), _sort_key(Head(sorted))) THEN <<ev>> \o sorted
    ELSE <<Head(sorted)>> \o Insert(ev, Tail(sorted))
RECURSIVE sort(_)
sort(evs) ==
    IF evs = <<>> THEN <<>>
    ELSE Insert(evs[Len(evs)], sort(SubSeq(evs, 1, Len(evs) - 1)))

-----------------------------------------------------------------------------
(* calendar.py: _expand_recurring *)

_fix_rrule_until_tz(rule) ==
    IF rule.until.form = "bare" THEN [rule EXCEPT !.until.form = "utc"] ELSE rule

\* rrulestr(rule, dtstart=dt_start) with an aware dt_start raises ValueError
\* for a string that is no rule and for an UNTIL that is not a UTC time
rrulestr_raises(rule) == ~rule.parses \/ rule.until.form \in {"bare", "local"}

\* the occurrences of a parsed rule: dt_start and every interval days after
\* it, in wall time, COUNT of them at most and none after UNTIL. Those later
\* than every query window are left out.
MaxOcc == MaxDay + 2
rrule(rule, dt_start) ==
    {occ \in {plus(dt_start, k * rule.interval * Day) : k \in 0..MaxOcc} :
        /\ rule.count > 0 => occ.wall < dt_start.wall + rule.count * rule.interval * Day
        /\ rule.until.form # "none" => Le(occ, Datetime(rule.until.day * Day, "UTC"))}

\* dateutil.parser.parse of one EXDATE value, given the zone tz for a value
\* that names none: it raises ValueError (ParserError) for a string that is no
\* date and OverflowError for a number too large for a date
dtparse_exception(part) ==
    CASE part.kind = "bad"      -> "ValueError"
      [] part.kind = "overflow" -> "OverflowError"
      [] OTHER                  -> "none"
dtparse(part, tz) == Datetime(part.hour, IF part.kind = "utc" THEN "UTC" ELSE tz)

\* the rule set while event.recurrences is read: failed when an RRULE entry
\* raised and the function returned the fallback, raised when an exception
\* left the function
EmptyRset == [failed |-> FALSE, raised |-> "none", has_rrule |-> FALSE,
              rrules |-> {}, exdates |-> {}]

\* the inner loop over the values of one EXDATE entry
RECURSIVE exdates(_, _, _)
exdates(parts, tz, rset) ==
    IF parts = <<>> THEN rset
    ELSE LET part == Head(parts)
         IN  IF part.kind = "blank" THEN exdates(Tail(parts), tz, rset)
             ELSE IF dtparse_exception(part) \in {"ValueError", "TypeError"}
             THEN exdates(Tail(parts), tz, rset)
             ELSE IF dtparse_exception(part) # "none"
             THEN [rset EXCEPT !.raised = dtparse_exception(part)]
             ELSE exdates(Tail(parts), tz,
                      [rset EXCEPT !.exdates = @ \cup {dtparse(part, tz)}])

\* the loop over event.recurrences
RECURSIVE parse_recurrences(_, _, _)
parse_recurrences(entries, dt_start, rset) ==
    IF entries = <<>> \/ rset.raised # "none" THEN rset
    ELSE LET rule_str == Head(entries)
         IN  IF rule_str.prefix = "RRULE:"
             THEN IF rrulestr_raises(_fix_rrule_until_tz(rule_str))
                  THEN [rset EXCEPT !.failed = TRUE]
                  ELSE parse_recurrences(Tail(entries), dt_start,
                           [rset EXCEPT !.has_rrule = TRUE,
                                        !.rrules = @ \cup {_fix_rrule_until_tz(rule_str)}])
             ELSE IF rule_str.prefix = "EXDATE:"
             THEN parse_recurrences(Tail(entries), dt_start,
                      exdates(rule_str.parts, dt_start.zone, rset))
             ELSE parse_recurrences(Tail(entries), dt_start, rset)

\* a == b of two aware datetimes
SameTime(a, b) == ~Lt(a, b) /\ ~Lt(b, a)

\* rruleset.between(after, before, inc=True): the occurrences of the rules,
\* each once, without the excluded ones, in ascending order
RECURSIVE Ascending(_)
Ascending(occs) ==
    IF occs = {} THEN <<>>
    ELSE LET first == CHOOSE o \in occs : \A p \in occs : o.wall <= p.wall
         IN  <<first>> \o Ascending(occs \ {first})
between(rset, dt_start, after, before) ==
    Ascending({occ \in UNION {rrule(rule, dt_start) : rule \in rset.rrules} :
                  /\ ~\E ex \in rset.exdates : SameTime(occ, ex)
                  /\ Le(after, occ) /\ Le(occ, before)})

\* mutant of the loop body: every occurrence gets the uid of the event
occurrence_plain_uid(event, occ_start_aware, duration_ms) ==
    LET occ_end_aware == plus(occ_start_aware, duration_ms)
    IN  IF event.all_day
        THEN LET occ_start_date == date(occ_start_aware)
                 occ_end_date   == date(occ_end_aware)
             IN  CalendarEvent(occ_start_date,
                               IF Le(occ_end_date, occ_start_date)
                               THEN plus_days(occ_start_date, 1) ELSE occ_end_date,
                               Uid(event.id, Null))
        ELSE CalendarEvent(occ_start_aware, occ_end_aware, Uid(event.id, Null))

\* the occurrence built for one start (the body of the for loop)
occurrence(event, occ_start_aware, duration_ms) ==
    LET occ_end_aware == plus(occ_start_aware, duration_ms)
        uid == Uid(event.id, timestamp(occ_start_aware))
    IN  IF event.all_day
        THEN LET occ_start_date == date(occ_start_aware)
                 occ_end_date   == date(occ_end_aware)
             IN  CalendarEvent(occ_start_date,
                               IF Le(occ_end_date, occ_start_date)
                               THEN plus_days(occ_start_date, 1) ELSE occ_end_date,
                               uid)
        ELSE CalendarEvent(occ_start_aware, occ_end_aware, uid)

\* mutant of _expand_recurring: the exclusions are not applied
_expand_recurring_no_exdate(event, range_start, range_end) ==
    LET duration_ms == event.end_at - event.start_at
        dt_start    == fromtimestamp(event.start_at, event.start_timezone)
        rset        == parse_recurrences(event.recurrences, dt_start, EmptyRset)
        occurrences == between([rset EXCEPT !.exdates = {}], dt_start, range_start, range_end)
    IN  IF rset.failed \/ ~rset.has_rrule THEN <<_map_event(event)>>
        ELSE [i \in DOMAIN occurrences |-> occurrence(event, occurrences[i], duration_ms)]

\* the exception that leaves _expand_recurring, "none" when it returns
_expand_recurring_exception(event) ==
    parse_recurrences(event.recurrences,
                      fromtimestamp(event.start_at, event.start_timezone),
                      EmptyRset).raised

\* what _expand_recurring returns, when it returns
_expand_recurring(event, range_start, range_end) ==
    LET duration_ms == event.end_at - event.start_at
        dt_start    == fromtimestamp(event.start_at, event.start_timezone)
        rset        == parse_recurrences(event.recurrences, dt_start, EmptyRset)
        occurrences == between(rset, dt_start, range_start, range_end)
    IN  IF rset.failed \/ ~rset.has_rrule THEN <<_map_event(event)>>
        ELSE [i \in DOMAIN occurrences |-> occurrence(event, occurrences[i], duration_ms)]

-----------------------------------------------------------------------------
(* calendar.py: TimeTreeCalendarEntity, the window query *)

\* the order in which coordinator.data.values() yields the stored events
IdOrder == <<"A", "B">>

\* mutant of the for loop: an event that ends at the instant the window
\* starts is kept
RECURSIVE collect_loose(_, _, _, _)
collect_loose(ids, all_events, start_date, end_date) ==
    IF ids = <<>> THEN <<>>
    ELSE IF Head(ids) \notin DOMAIN all_events
    THEN collect_loose(Tail(ids), all_events, start_date, end_date)
    ELSE LET ev       == all_events[Head(ids)]
             ev_start == _to_datetime(ev, FALSE)
             ev_end   == _to_datetime(ev, TRUE)
             found    == IF is_recurring(ev)
                         THEN IF _expand_recurring_exception(ev) # "none"
                              THEN <<>>
                              ELSE _expand_recurring(ev, start_date, end_date)
                         ELSE IF Lt(ev_end, start_date) \/ ~Lt(ev_start, end_date)
                         THEN <<>>
                         ELSE <<_map_event(ev)>>
         IN  found \o collect_loose(Tail(ids), all_events, start_date, end_date)

\* the for loop of async_get_events over the stored events
RECURSIVE collect(_, _, _, _)
collect(ids, all_events, start_date, end_date) ==
    IF ids = <<>> THEN <<>>
    ELSE IF Head(ids) \notin DOMAIN all_events
    THEN collect(Tail(ids), all_events, start_date, end_date)
    ELSE LET ev       == all_events[Head(ids)]
             ev_start == _to_datetime(ev, FALSE)
             ev_end   == _to_datetime(ev, TRUE)
             found    == IF is_recurring(ev)
                         THEN IF _expand_recurring_exception(ev) # "none"
                              THEN <<>>   \* except Exception: logged, event left out
                              ELSE _expand_recurring(ev, start_date, end_date)
                         ELSE IF Le(ev_end, start_date) \/ ~Lt(ev_start, end_date)
                         THEN <<>>
                         ELSE <<_map_event(ev)>>
         IN  found \o collect(Tail(ids), all_events, start_date, end_date)

entity_async_get_events(all_events, start_date, end_date) ==
    sort(collect(IdOrder, all_events, start_date, end_date))

\* the query windows the host asks for: from one midnight (UTC) to a later one
Windows ==
    {w \in {[start_date |-> Datetime(Day * a, "UTC"),
             end_date |-> Datetime(Day * b, "UTC")] :
                a \in 1..(MaxDay + 1), b \in 1..(MaxDay + 1)} :
        Lt(w.start_date, w.end_date)}

\* the stores the view is asked about: an event A of any shape, alone or next
\* to a timed event B
Companion == StoredEvent("B", FALSE, Day + 11, 2 * Day, <<"UTC", "UTC">>, <<>>)
ViewStores ==
    {[k \in {"A"} |-> e] : e \in StoredEvents("A")}
      \cup {[k \in {"A", "B"} |-> IF k = "A" THEN e ELSE Companion] :
               e \in StoredEvents("A")}

InitView ==
    /\ authenticated = FALSE
    /\ csrf_token    = Null
    /\ throttle_lock = Free
    /\ task          = [t \in Tasks |-> IdleTask]
    /\ events        \in [Coords -> ViewStores]
    /\ last_sync_ms  = [c \in Coords |-> Null]
    /\ waiters       = <<>>
    /\ idle_time     = 0
    /\ since_return  = Null
    /\ user_id       = Null
    /\ uuid_calls    = 0

\* the host calls TimeTreeCalendarEntity.async_get_events(start_date, end_date);
\* the call reads the store and changes nothing, so one call per behaviour
\* shows all it does
EntityGetEvents(c) ==
    /\ task[c].op = "none"
    /\ \E w \in Windows :
         task' = [task EXCEPT ![c] =
                    [IdleTask EXCEPT !.op = "entity.async_get_events",
                                     !.args = [id |-> "", start_date |-> w.start_date,
                                               end_date |-> w.end_date],
                                     !.ret = entity_async_get_events(events[c],
                                                 w.start_date, w.end_date),
                                     !.outcome = "ok"]]
    /\ UNCHANGED <<authenticated, csrf_token, throttle_lock, events, last_sync_ms,
                   waiters, idle_time, since_return, user_id, uuid_calls>>

\* _expand_recurring(event, range_start, range_end) called on the stored
\* event A
Expand(c) ==
    /\ task[c].op = "none"
    /\ \E w \in Windows :
         LET event == events[c]["A"]
             exc   == _expand_recurring_exception(event)
         IN  task' = [task EXCEPT ![c] =
                    [IdleTask EXCEPT !.op = "_expand_recurring",
                                     !.args = [id |-> "A", start_date |-> w.start_date,
                                               end_date |-> w.end_date],
                                     !.ret = IF exc # "none" THEN <<>>
                                             ELSE _expand_recurring(event,
                                                      w.start_date, w.end_date),
                                     !.outcome = IF exc # "none" THEN exc ELSE "ok"]]
    /\ UNCHANGED <<authenticated, csrf_token, throttle_lock, events, last_sync_ms,
                   waiters, idle_time, since_return, user_id, uuid_calls>>

NextView == \E c \in Coords : EntityGetEvents(c) \/ Expand(c)

SpecView == InitView /\ [][NextView]_vars

-----------------------------------------------------------------------------
(* calendar.py: _kwargs_to_mutation *)

\* a value of the service call's data: None (also: key not in the dict), a
\* datetime or date object, or a string (text: what the parser makes of it).
\* A datetime with zone "" has tzinfo None.
NoneValue == [type |-> "NoneType", dt |-> Date(0), text |-> Part("blank", 0)]
Obj(dt)   == [type |-> IF dt.is_datetime THEN "datetime" ELSE "date", dt |-> dt,
              text |-> Part("blank", 0)]
Str(text) == [type |-> "str", dt |-> Date(0), text |-> text]

\* isinstance(v, datetime), and isinstance(v, date): datetime is a subclass of date
isinstance(v, cls) ==
    CASE cls = "datetime" -> v.type = "datetime"
      [] cls = "date"     -> v.type \in {"date", "datetime"}
      [] cls = "str"      -> v.type = "str"
\* `a or b`: None is falsy, the other values here are truthy
or(a, b) == IF a.type # "NoneType" THEN a ELSE b
truthy(v) == v.type # "NoneType"

\* to_api_dict of the mutation: attendees is in the dict only if there are any
to_api_dict(mutation) ==
    [id |-> Null, has_attendees |-> mutation.attendees # <<>>,
     attendees |-> mutation.attendees,
     fields |-> [mutation EXCEPT !.attendees = <<>>]]

\* the all-day branch: HA's exclusive end date to TimeTree's inclusive one
all_day_mutation(dtstart, dtend) ==
    LET start  == IF isinstance(dtstart, "datetime") THEN Obj(date(dtstart.dt)) ELSE dtstart
        end    == IF isinstance(dtend, "datetime") THEN Obj(date(dtend.dt)) ELSE dtend
    IN  IF end.type = "NoneType" \/ start.type = "NoneType"
        THEN \* None - timedelta(days=1), or date < None
             [raised |-> "TypeError", mutation |-> NoMutation]
        ELSE LET minus1 == plus_days(end.dt, -1)
                 tt_end == IF Lt(minus1, start.dt) THEN start.dt ELSE minus1
             IN  [raised |-> "none",
                  mutation |-> EventMutation(TRUE, timestamp(combine(start.dt)),
                                             timestamp(combine(tt_end)), "UTC", <<>>)]

\* the timed branch
timed_mutation(dtstart, dtend) ==
    IF ~isinstance(dtstart, "datetime") \/ ~isinstance(dtend, "datetime")
    THEN [raised |-> "ValueError", mutation |-> NoMutation]
    ELSE LET start == IF dtstart.dt.zone = "" THEN Datetime(dtstart.dt.wall, "UTC")
                      ELSE dtstart.dt
             end   == IF dtend.dt.zone = "" THEN Datetime(dtend.dt.wall, "UTC")
                      ELSE dtend.dt
         IN  [raised |-> "none",
              mutation |-> EventMutation(FALSE, timestamp(start), timestamp(end),
                                         start.zone, <<>>)]

_kwargs_to_mutation(data) ==
    LET timed   == truthy(data["start_date_time"])
                     \/ (truthy(data["dtstart"]) /\ isinstance(data["dtstart"], "datetime"))
        dated   == truthy(data["start_date"])
                     \/ (truthy(data["dtstart"]) /\ isinstance(data["dtstart"], "date")
                           /\ ~isinstance(data["dtstart"], "datetime"))
        dtstart == IF timed
                   THEN or(or(data["start_date_time"], data["dtstart"]), data["start"])
                   ELSE IF dated
                   THEN or(or(data["start_date"], data["dtstart"]), data["start"])
                   ELSE or(data["dtstart"], data["start"])
        dtend   == IF timed
                   THEN or(or(data["end_date_time"], data["dtend"]), data["end"])
                   ELSE IF dated
                   THEN or(or(data["end_date"], data["dtend"]), data["end"])
                   ELSE or(data["dtend"], data["end"])
        all_day == IF timed THEN FALSE
                   ELSE IF dated THEN TRUE
                   ELSE isinstance(dtstart, "date") /\ ~isinstance(dtstart, "datetime")
        \* strings are parsed, the start first
        start_exc == IF isinstance(dtstart, "str") THEN dtparse_exception(dtstart.text)
                     ELSE "none"
        end_exc   == IF isinstance(dtend, "str") THEN dtparse_exception(dtend.text)
                     ELSE "none"
        parsed(v) == IF isinstance(v, "str") THEN Obj(dtparse(v.text, "")) ELSE v
    IN  IF start_exc # "none" THEN [raised |-> start_exc, mutation |-> NoMutation]
        ELSE IF end_exc # "none" THEN [raised |-> end_exc, mutation |-> NoMutation]
        ELSE IF all_day THEN all_day_mutation(parsed(dtstart), parsed(dtend))
        ELSE timed_mutation(parsed(dtstart), parsed(dtend))

-----------------------------------------------------------------------------
(* calendar.py: TimeTreeCalendarEntity, the service handlers *)

MaxUuid == 2     \* uuid.uuid4() calls in one behaviour

\* uuid.uuid4().hex: the n-th call returns the n-th value, all different
uuid4(w) == w.uuid_calls + 1

\* the keys of the data the host passes, and the data of the model: one start
\* key and one end key at most, the rest not in the dict
Keys == {"start_date_time", "end_date_time", "start_date", "end_date",
         "dtstart", "dtend", "start", "end"}
StartValues == {Obj(Datetime(Day + 11, "UTC")), Obj(Datetime(2 * Day, "")),
                Obj(Date(1)), Str(Part("naive", Day)), Str(BadPart)}
EndValues   == {Obj(Datetime(Day + 12, "UTC")), Obj(Datetime(2 * Day + 1, "")),
                Obj(Date(1)), Obj(Date(2)), Obj(Date(3)),
                Str(Part("naive", 2 * Day)), Str(BadPart)}
NoData == [k \in Keys |-> NoneValue]
ServiceData ==
    {[[NoData EXCEPT ![sk] = sv] EXCEPT ![ek] = ev] :
        sk \in {"start_date_time", "start_date", "dtstart", "start"},
        ek \in {"end_date_time", "end_date", "dtend", "end"},
        sv \in StartValues \cup {NoneValue}, ev \in EndValues \cup {NoneValue}}

\* the bundled client's async_create_event up to its await
client_async_create_event(w, t, mutation, wait) ==
    LET body == [to_api_dict(mutation) EXCEPT !.id = uuid4(w)]
    IN  _request(Log([w EXCEPT !.uuid_calls = @ + 1, !.task[t].body = <<body>>],
                     t, "async_create_event"), t, TRUE, Null, wait)

client_async_update_event(w, t, mutation, wait) ==
    _request(Log([w EXCEPT !.task[t].body = <<to_api_dict(mutation)>>],
                 t, "async_update_event"), t, TRUE, Null, wait)

client_async_delete_event(w, t, wait) ==
    _request(Log(w, t, "async_delete_event"), t, TRUE, Null, wait)

\* mutant of entity_async_create_event: the request goes out with whatever
\* the data gave, the conversion's error comes after it
entity_async_create_event_sends_first(w, t, data, wait) ==
    LET r == _kwargs_to_mutation(data)
    IN  client_async_create_event(w, t, r.mutation, wait)

\* TimeTreeCalendarEntity.async_create_event up to its first await
entity_async_create_event(w, t, data, wait) ==
    LET r == _kwargs_to_mutation(data)
    IN  IF r.raised # "none" THEN Finish(Log(w, t, r.raised), t, r.raised)
        ELSE client_async_create_event(w, t, r.mutation, wait)

\* TimeTreeCalendarEntity.async_update_event up to its first await
entity_async_update_event(w, t, data, wait) ==
    LET r == _kwargs_to_mutation(data)
    IN  IF r.raised # "none" THEN Finish(Log(w, t, r.raised), t, r.raised)
        ELSE client_async_update_event(w, t, r.mutation, wait)

\* the entity is asked about a coordinator that has synced (or not yet), on a
\* client that is logged in (or not)
SyncedEvent == [id |-> "A", deleted_at |-> Null, updated_at |-> 1]
InitEntity ==
    /\ \E login \in BOOLEAN :
         /\ authenticated = login
         /\ csrf_token = IF login THEN 101 ELSE Null
    /\ throttle_lock = Free
    /\ task          = [t \in Tasks |-> IdleTask]
    /\ \E synced \in BOOLEAN :
         /\ events = [c \in Coords |-> IF synced THEN Put(EmptyStore, "A", SyncedEvent)
                                       ELSE EmptyStore]
         /\ last_sync_ms = [c \in Coords |-> IF synced THEN 1 ELSE Null]
    /\ waiters       = <<>>
    /\ idle_time     = 0
    /\ since_return  = Null
    /\ user_id       = Null
    /\ uuid_calls    = 0

WithArgs(w, t, data) == [w EXCEPT !.task[t].args = data]

\* the host calls a service of the entity; a behaviour follows one call to
\* its end
EntityCreate(e) ==
    /\ task[e].op = "none"
    /\ uuid_calls < MaxUuid
    /\ \E data \in ServiceData, wait \in BOOLEAN :
         Commit(entity_async_create_event(
                    WithArgs(Begin(World, e, "entity.async_create_event", "main"), e, data),
                    e, data, wait))

EntityUpdate(e) ==
    /\ task[e].op = "none"
    /\ \E data \in ServiceData, wait \in BOOLEAN :
         Commit(entity_async_update_event(
                    WithArgs(Begin(World, e, "entity.async_update_event", "main"), e, data),
                    e, data, wait))

EntityDelete(e) ==
    /\ task[e].op = "none"
    /\ \E wait \in BOOLEAN :
         Commit(client_async_delete_event(
                    Begin(World, e, "entity.async_delete_event", "main"), e, wait))

NextEntity ==
    \E e \in Entities :
        \/ EntityCreate(e)
        \/ EntityUpdate(e)
        \/ EntityDelete(e)
        \/ ThrottleWake(e)
        \/ ServerRespond(e)
        \/ ResumeRequest(e)

SpecEntity == InitEntity /\ [][NextEntity]_vars

-----------------------------------------------------------------------------
(* The library client: login with the user's id, and event creation *)

\* mutations a user of the library creates events from; attendees are user
\* ids, written as numbers
LibMutations ==
    {EventMutation(all_day, Day, 2 * Day, "UTC", attendees) :
        all_day \in BOOLEAN, attendees \in {<<>>, <<8>>, <<8, 9>>}}

\* mutant of lib_async_create_event: the user's id is never filled in
lib_async_create_event_no_default(w, t, mutation, wait) ==
    client_async_create_event(w, t, mutation, wait)

\* the library client's async_create_event up to its await
lib_async_create_event(w, t, mutation, wait) ==
    LET body0 == [to_api_dict(mutation) EXCEPT !.id = uuid4(w)]
        body  == IF w.user_id # Null /\ (~body0.has_attendees \/ body0.attendees = <<>>)
                 THEN [body0 EXCEPT !.has_attendees = TRUE, !.attendees = <<w.user_id>>]
                 ELSE body0
    IN  _request(Log([w EXCEPT !.uuid_calls = @ + 1, !.task[t].body = <<body>>],
                     t, "async_create_event"), t, TRUE, Null, wait)

\* TimeTreeApiClient.authenticate of the library is called
StartLibAuthenticate(t) ==
    /\ Idle(t)
    /\ Commit(authenticate(Begin(World, t, "lib.authenticate", "main"), t))

\* TimeTreeApiClient.async_create_event of the library is called
LibCreate(t) ==
    /\ Idle(t)
    /\ uuid_calls < MaxUuid
    /\ \E mutation \in LibMutations, wait \in BOOLEAN :
         Commit(lib_async_create_event(
                    WithArgs(Begin(World, t, "lib.async_create_event", "main"), t, mutation),
                    t, mutation, wait))

NextLib ==
    \E t \in LibUsers :
        \/ StartLibAuthenticate(t)
        \/ LibCreate(t)
        \/ ThrottleWake(t)
        \/ ServerRespond(t)
        \/ ResumeRequest(t)
        \/ ResumeFetch1(t)
        \/ ResumePut(t)
        \/ ResumeFetch2(t)

SpecLib == Init /\ [][NextLib]_vars

-----------------------------------------------------------------------------
(* calendar.py: _fix_rrule_until_tz on the text of a rule *)

\* a str is the sequence of its characters
UntilKey    == <<"U", "N", "T", "I", "L", "=">>
UtcMidnight == <<"T", "0", "0", "0", "0", "0", "0", "Z">>

startswith(text, prefix) ==
    Len(text) >= Len(prefix) /\ SubSeq(text, 1, Len(prefix)) = prefix
endswith(text, ch) == text # <<>> /\ text[Len(text)] = ch
Contains(text, ch) == \E i \in DOMAIN text : text[i] = ch

\* what [^;]+ matches at the start of text: the characters before the first
\* ";" (none: no match)
RECURSIVE NotSemicolons(_)
NotSemicolons(text) ==
    IF text = <<>> \/ Head(text) = ";" THEN <<>>
    ELSE <<Head(text)>> \o NotSemicolons(Tail(text))

\* mutant of _fix_until: the suffix is appended to every value
_fix_until_always(val) == UntilKey \o val \o UtcMidnight

\* the replacement function, given m.group(1); m.group(0) is UNTIL= and val
_fix_until(val) ==
    IF Contains(val, "T") \/ endswith(val, "Z") THEN UntilKey \o val
    ELSE UntilKey \o val \o UtcMidnight

\* re.sub(r"UNTIL=([^;]+)", _fix_until, rule_str): the matches are taken from
\* left to right and do not overlap, the text between them is copied
RECURSIVE re_sub_until(_)
re_sub_until(rule_str) ==
    IF rule_str = <<>> THEN <<>>
    ELSE LET val == IF startswith(rule_str, UntilKey)
                    THEN NotSemicolons(SubSeq(rule_str, Len(UntilKey) + 1, Len(rule_str)))
                    ELSE <<>>
             end == Len(UntilKey) + Len(val)
         IN  IF val # <<>>
             THEN _fix_until(val) \o re_sub_until(SubSeq(rule_str, end + 1, Len(rule_str)))
             ELSE <<Head(rule_str)>> \o re_sub_until(Tail(rule_str))

\* the rule texts: RRULE: and up to three parts joined by ";", one of them an
\* UNTIL with any value of up to MaxValue characters, which a second UNTIL
\* may follow
MaxValue == 2
ValueChars == {"2", "T", "Z"}
RECURSIVE Texts(_, _)
Texts(S, n) ==
    IF n = 0 THEN {<<>>}
    ELSE LET shorter == Texts(S, n - 1)
         IN  shorter \cup {Append(s, e) : s \in {x \in shorter : Len(x) = n - 1}, e \in S}
RECURSIVE Join(_)
Join(parts) ==
    IF parts = <<>> THEN <<>>
    ELSE IF Len(parts) = 1 THEN parts[1]
    ELSE parts[1] \o <<";">> \o Join(Tail(parts))
FreqPart  == <<"F", "R", "E", "Q", "=", "W", "E", "E", "K", "L", "Y">>
ByDayPart == <<"B", "Y", "D", "A", "Y", "=", "T", "U">>
RulePrefix == <<"R", "R", "U", "L", "E", ":">>
UntilParts == {UntilKey \o val : val \in Texts(ValueChars, MaxValue)}
RuleTexts ==
    {RulePrefix \o Join(parts) :
        parts \in {<<p1>> : p1 \in {FreqPart} \cup UntilParts}
             \cup {<<p1, p2>> : p1 \in {FreqPart} \cup UntilParts,
                                p2 \in {ByDayPart, UntilKey \o <<"2">>,
                                        UntilKey \o <<"2", "Z">>}}
             \cup {<<FreqPart, p2, ByDayPart>> : p2 \in UntilParts}}

\* the events whose one rule carries a bare UNTIL date
BareUntilStores ==
    {st \in ViewStores : DOMAIN st = {"A"} /\ st["A"].recurrences = <<DailyUntil("bare")>>}

InitRule ==
    /\ authenticated = FALSE
    /\ csrf_token    = Null
    /\ throttle_lock = Free
    /\ task          = [t \in Tasks |-> IdleTask]
    /\ events        \in [Coords -> BareUntilStores]
    /\ last_sync_ms  = [c \in Coords |-> Null]
    /\ waiters       = <<>>
    /\ idle_time     = 0
    /\ since_return  = Null
    /\ user_id       = Null
    /\ uuid_calls    = 0

\* _fix_rrule_until_tz(rule_str) called on a rule text
FixRule(c) ==
    /\ task[c].op = "none"
    /\ \E rule_str \in RuleTexts :
         task' = [task EXCEPT ![c] =
                    [IdleTask EXCEPT !.op = "_fix_rrule_until_tz",
                                     !.args = rule_str,
                                     !.ret = re_sub_until(rule_str),
                                     !.outcome = "ok"]]
    /\ UNCHANGED <<authenticated, csrf_token, throttle_lock, events, last_sync_ms,
                   waiters, idle_time, since_return, user_id, uuid_calls>>

NextRule == \E c \in Coords : FixRule(c) \/ Expand(c)

SpecRule == InitRule /\ [][NextRule]_vars

-----------------------------------------------------------------------------
(* Reading the history *)

CallNames == {"async_get_events", "authenticate", "validate_session", "_request"}
HttpNames == {"GET signin", "PUT signin", "GET auths", "GET events", "GET api", "POST api"}

IsCall(x)   == x \in CallNames
IsHttp(x)   == x \in HttpNames
IsResult(x) == x \notin CallNames \cup HttpNames \cup {"acquire"}

\* the calls made, the HTTP requests sent, and how the calls ended, in order;
\* calls are made one after the other, so Results(log)[i] ends Calls(log)[i]
Calls(log)   == SelectSeq(log, IsCall)
Http(log)    == SelectSeq(log, IsHttp)
Results(log) == SelectSeq(log, IsResult)

Count(log, x) == Cardinality({i \in DOMAIN log : log[i] = x})
IsPrefix(p, q) == Len(p) <= Len(q) /\ SubSeq(q, 1, Len(p)) = p
MaxOf(S) == CHOOSE x \in S : \A y \in S : y <= x

Refreshing(c)    == task[c].op = "refresh"
RefreshOk(c)     == Refreshing(c) /\ Idle(c) /\ task[c].outcome = "ok"
RefreshFailed(c) == Refreshing(c) /\ Idle(c) /\ task[c].outcome # "ok"

\* the store the claims describe: for every id the last event of the batch
\* with that id decides; ids the batch does not mention keep their event
Occurs(batch, id) == {i \in DOMAIN batch : batch[i].id = id}
LastOf(batch, id) == batch[MaxOf(Occurs(batch, id))]
MergedStore(store, batch) ==
    LET keys == {k \in Ids : IF Occurs(batch, k) = {} THEN k \in DOMAIN store
                             ELSE LastOf(batch, k).deleted_at = Null}
    IN  [k \in keys |-> IF Occurs(batch, k) = {} THEN store[k] ELSE LastOf(batch, k)]

\* the cursor the claims describe: the greatest of the previous cursor and the
\* updated_at values of the batch (null below every timestamp)
Stamps(batch) == {batch[i].updated_at : i \in DOMAIN batch} \ {Null}
MergedCursor(cursor, batch) ==
    IF Stamps(batch) = {} THEN cursor
    ELSE IF cursor = Null \/ MaxOf(Stamps(batch)) > cursor THEN MaxOf(Stamps(batch))
    ELSE cursor

-----------------------------------------------------------------------------
(* Claims *)

\* C1: after a successful refresh() the store is the previous store updated by
\* the batch in batch order: a tombstone removes its id, any other event is
\* mapped under its id, ids not in the batch keep their event.
C1_MergeOnSuccess ==
    \A c \in Coords :
        RefreshOk(c) =>
            events[c] = MergedStore(task[c].before.events, task[c].resp.events)

\* store {A, B}, batch [A' (updated), B (tombstone)] gives {A'}
C1_Witness ==
    \E c \in Coords :
        /\ RefreshOk(c)
        /\ DOMAIN task[c].before.events = {"A", "B"}
        /\ task[c].before.events["A"].updated_at = 1
        /\ task[c].resp.events =
               << [id |-> "A", deleted_at |-> Null, updated_at |-> 2],
                  [id |-> "B", deleted_at |-> 1, updated_at |-> 2] >>
        /\ DOMAIN events[c] = {"A"}
        /\ events[c]["A"].updated_at = 2

\* C2: a refresh() that fails leaves store and cursor as they were before the
\* call, and nothing is merged before the fetch has returned successfully.
C2_FailureKeepsStore ==
    \A c \in Coords :
        (Refreshing(c) /\ ~RefreshOk(c)) =>
            /\ events[c] = task[c].before.events
            /\ last_sync_ms[c] = task[c].before.last_sync_ms

\* the retry after a reauthentication failed, with events in the store
C2_Witness ==
    \E c \in Coords :
        /\ RefreshFailed(c)
        /\ Calls(task[c].log) = <<"async_get_events", "authenticate", "async_get_events">>
        /\ events[c] # EmptyStore
        /\ last_sync_ms[c] # Null

\* C3: no stored event has deleted_at set, and every key is the id of its event.
C3_StoreInvariant ==
    \A c \in Coords : \A k \in DOMAIN events[c] :
        /\ events[c][k].deleted_at = Null
        /\ events[c][k].id = k

\* a successful refresh consumed a tombstone of a stored event and kept another
C3_Witness ==
    \E c \in Coords :
        /\ RefreshOk(c)
        /\ \E i \in DOMAIN task[c].resp.events :
               /\ task[c].resp.events[i].deleted_at # Null
               /\ task[c].resp.events[i].id \in DOMAIN task[c].before.events
               /\ task[c].resp.events[i].id \notin DOMAIN events[c]
        /\ events[c] # EmptyStore

\* C4: the cursor starts as null, a sync request carries the cursor as since
\* (none while it is null), a successful refresh sets it to the greatest of the
\* previous cursor and the batch's updated_at values (tombstones included), and
\* no step ever decreases it.
C4_CursorMonotonic ==
    /\ \A c \in Coords : last_sync_ms[c] = Null
    /\ [](\A c \in Coords :
            /\ task[c].req.kind = "GET events" => task[c].req.since = last_sync_ms[c]
            /\ RefreshOk(c) =>
                 last_sync_ms[c] =
                     MergedCursor(task[c].before.last_sync_ms, task[c].resp.events))
    /\ [][\A c \in Coords :
            /\ last_sync_ms[c] # Null => last_sync_ms'[c] # Null
            /\ last_sync_ms'[c] >= last_sync_ms[c]]_vars

\* a batch of tombstones only advanced the cursor from 1 to 2
C4_Witness ==
    \E c \in Coords :
        /\ RefreshOk(c)
        /\ task[c].before.last_sync_ms = 1
        /\ task[c].resp.events # <<>>
        /\ \A i \in DOMAIN task[c].resp.events : task[c].resp.events[i].deleted_at # Null
        /\ last_sync_ms[c] = 2

\* C5: one refresh() calls authenticate() at most once and the event sync at
\* most twice, and an AuthenticationError of the retry ends the refresh.
C5_RetryOnce ==
    \A c \in Coords :
        Refreshing(c) =>
            /\ Count(task[c].log, "authenticate") <= 1
            /\ Count(task[c].log, "async_get_events") <= 2
            /\ Count(task[c].log, "GET events") <= 2
            /\ (Len(Results(task[c].log)) >= 3
                    /\ Results(task[c].log)[3] = "AuthenticationError") => Idle(c)

\* the retry failed with AuthenticationError again and the refresh is over
C5_Witness ==
    \E c \in Coords :
        /\ Refreshing(c) /\ Idle(c)
        /\ Calls(task[c].log) = <<"async_get_events", "authenticate", "async_get_events">>
        /\ Results(task[c].log) = <<"AuthenticationError", "returned", "AuthenticationError">>

\* C6: the first sync call failed with AuthenticationError.  If authenticate()
\* then succeeded, the sync was called once more, with the same cursor, and a
\* result it returned was merged; if authenticate() failed, the refresh ended
\* with ConfigEntryAuthFailed and without a second sync call.
C6_ReauthThenRetry ==
    \A c \in Coords :
        LET log == task[c].log
            R   == Results(log)
        IN  Refreshing(c) =>
              /\ task[c].req.kind = "GET events" =>
                     task[c].req.since = task[c].before.last_sync_ms
              /\ (Idle(c) /\ Len(R) >= 1 /\ R[1] = "AuthenticationError") =>
                   /\ Len(R) >= 2
                   /\ IF R[2] = "returned"
                      THEN /\ Calls(log) = <<"async_get_events", "authenticate",
                                             "async_get_events">>
                           /\ Len(R) = 3
                           /\ R[3] = "returned" =>
                                /\ task[c].outcome = "ok"
                                /\ events[c] = MergedStore(task[c].before.events,
                                                           task[c].resp.events)
                      ELSE /\ task[c].outcome = "ConfigEntryAuthFailed"
                           /\ Calls(log) = <<"async_get_events", "authenticate">>
                           /\ Count(log, "GET events") <= 1

\* a session expired between two syncs: reauthentication, then a merged retry
C6_Witness ==
    \E c \in Coords :
        /\ RefreshOk(c)
        /\ Results(task[c].log) = <<"AuthenticationError", "returned", "returned">>
        /\ Count(task[c].log, "GET events") = 2
        /\ task[c].before.last_sync_ms # Null
        /\ events[c] # task[c].before.events

\* C7 (as claimed): whenever a sync call of refresh(), the first or the retry,
\* fails with ConnectionError or a non-auth ApiResponseError, refresh() fails
\* with UpdateFailed.
C7_SyncErrorIsUpdateFailed ==
    \A c \in Coords :
        LET log == task[c].log
            R   == Results(log)
        IN  (/\ Refreshing(c) /\ Idle(c) /\ R # <<>>
             /\ Calls(log)[Len(R)] = "async_get_events"
             /\ R[Len(R)] \in {"ApiConnectionError", "ApiResponseError", "RateLimitError"})
            => task[c].outcome = "UpdateFailed"

\* a signin-page response from which _fetch_csrf_token takes a token
GoodPage(resp) == resp.kind = "http" /\ resp.status = 200 /\ resp.token # Null
\* an answer to the credential PUT that lets authenticate() go on
GoodLogin(resp) == resp.kind = "http" /\ resp.status = 200

AuthSteps == <<"GET signin", "PUT signin", "GET signin">>
Authenticating(t) == task[t].op = "authenticate"

\* C8: authenticate() sends GET signin, PUT credentials, GET signin, in this
\* order, and stops at the first step that fails; the PUT carries the token of
\* the first page; authenticated becomes true only in the step that ends the
\* third request successfully, and the token then held is the second page's.
C8_AuthenticateOrder ==
    /\ [](\A t \in Tasks :
            Authenticating(t) =>
              /\ IsPrefix(Http(task[t].log), AuthSteps)
              /\ (Idle(t) /\ task[t].outcome = "ok") =>
                   /\ Http(task[t].log) = AuthSteps
                   /\ GoodPage(task[t].resp)
              /\ (Idle(t) /\ task[t].outcome # "ok") =>
                   IF Len(Http(task[t].log)) = 2 THEN ~GoodLogin(task[t].resp)
                   ELSE ~GoodPage(task[t].resp))
    /\ [][\A t \in Tasks :
            (Authenticating(t) /\ task'[t] # task[t]) =>
              /\ (Arrived(t) /\ task[t].pc = "fetch1" /\ ~Idle(t)') =>
                   /\ task'[t].req.kind = "PUT signin"
                   /\ task'[t].req.csrf = task[t].resp.token
                   /\ task[t].resp.token # Null
              /\ IF Arrived(t) /\ task[t].pc = "fetch2" /\ GoodPage(task[t].resp)
                 THEN /\ authenticated'
                      /\ csrf_token' = task[t].resp.token
                      /\ Idle(t)' /\ task'[t].outcome = "ok"
                 ELSE authenticated' = authenticated]_vars

\* a login whose PUT went out and whose second page carried token 102
C8_Witness ==
    \E t \in Tasks :
        /\ Authenticating(t) /\ Idle(t) /\ task[t].outcome = "ok"
        /\ Http(task[t].log) = AuthSteps
        /\ task[t].resp.token = 102
        /\ csrf_token = 102
        /\ authenticated

\* C9 (as claimed): get_headers(mutating) raises when not authenticated or when
\* no token is held; otherwise the headers hold the app identifier, and the
\* CSRF header exactly when mutating is true.
C9_CsrfOnlyWhenMutating ==
    \A mutating \in BOOLEAN :
        IF ~authenticated \/ csrf_token = Null
        THEN get_headers_raises(World)
        ELSE /\ ~get_headers_raises(World)
             /\ get_headers(World, mutating).app
             /\ get_headers(World, mutating).csrf # Null <=> mutating

\* the step of task t in which its _request comes out of the throttle
LeavesThrottle(t) ==
    /\ task'[t] # task[t]
    /\ task'[t].op = "request"
    /\ task[t].pc \in {"idle", "lockwait", "sleep"}
    /\ task'[t].pc \in {"idle", "inflight"}

\* C10: a 401 or 403 answer to an API request makes the Auth Manager
\* unauthenticated and the request fail with AuthenticationError; while it is
\* unauthenticated every API request fails with AuthenticationError and sends
\* nothing; only a successful authenticate() or validate_session() ends that.
C10_UnauthenticatedBlocks ==
    [][\A t \in Tasks :
         /\ (/\ task[t].pc = "inflight" /\ task'[t] # task[t] /\ Arrived(t)
             /\ task[t].resp.kind = "http" /\ task[t].resp.status \in {401, 403})
            => /\ ~authenticated'
               /\ Idle(t)' /\ task'[t].outcome = "AuthenticationError"
         /\ (LeavesThrottle(t) /\ ~authenticated)
            => /\ Idle(t)' /\ task'[t].outcome = "AuthenticationError"
               /\ Http(task'[t].log) = <<>>
         /\ (task'[t].req # task[t].req /\ task'[t].req.kind \in {"GET api", "POST api"})
            => authenticated /\ authenticated'
         /\ (~authenticated /\ authenticated' /\ task'[t] # task[t])
            => /\ task[t].pc \in {"fetch2", "validate"}
               /\ Idle(t)' /\ task'[t].outcome = "ok"]_vars

\* one request was answered 401; the next request of another task failed with
\* AuthenticationError and sent nothing, though a token is still held
C10_Witness ==
    \E t1, t2 \in Tasks :
        /\ t1 # t2
        /\ ~authenticated /\ csrf_token # Null
        /\ task[t1].op = "request" /\ Idle(t1)
        /\ task[t1].resp.status = 401 /\ task[t1].outcome = "AuthenticationError"
        /\ task[t2].op = "request" /\ Idle(t2)
        /\ task[t2].log = <<"_request", "acquire", "AuthenticationError">>

\* the step in which task t's _request handles the response it received
HandlesResponse(t) ==
    /\ task[t].op = "request" /\ task[t].pc = "inflight"
    /\ Arrived(t) /\ task'[t] # task[t]
LastLogged(tk) == tk.log[Len(tk.log)]

\* C11 (as claimed): _request maps the status of every response to one outcome,
\* in this precedence: 401/403 AuthenticationError and unauthenticated; 429
\* RateLimitError; 204 success without body; another status >= 400
\* ApiResponseError with that status code; any other status the body.  Only
\* 401/403 change the Auth Manager; a connection error changes nothing.
C11_StatusOutcome ==
    [][\A t \in Tasks :
         HandlesResponse(t) =>
           LET resp == task[t].resp
               done == task'[t]
           IN  /\ Idle(t)'
               /\ csrf_token' = csrf_token
               /\ IF resp.kind = "error"
                  THEN done.outcome = "ApiConnectionError" /\ authenticated' = authenticated
                  ELSE IF resp.status \in {401, 403}
                  THEN done.outcome = "AuthenticationError" /\ ~authenticated'
                  ELSE /\ authenticated' = authenticated
                       /\ IF resp.status = 429 THEN done.outcome = "RateLimitError"
                          ELSE IF resp.status = 204
                          THEN done.outcome = "ok" /\ LastLogged(done) = "returned None"
                          ELSE IF resp.status >= 400
                          THEN /\ done.outcome = "ApiResponseError"
                               /\ done.exc.status_code = resp.status
                          ELSE done.outcome = "ok" /\ LastLogged(done) = "returned"]_vars

\* C12 (as claimed): every 429 makes the request fail with RateLimitError, an
\* ApiResponseError with status_code 429, whose retry_after is the parsed
\* Retry-After header, or null when the header is absent, whatever the header
\* holds (nothing, an empty string, a number, an HTTP date).
C12_RateLimitRetryAfter ==
    [][\A t \in Tasks :
         (HandlesResponse(t) /\ task[t].resp.kind = "http" /\ task[t].resp.status = 429) =>
           LET h    == task[t].resp.retry_after
               done == task'[t]
           IN  /\ Idle(t)'
               /\ done.outcome = "RateLimitError"
               /\ IsA(done.outcome, "ApiResponseError")
               /\ done.exc.status_code = 429
               /\ ~h.present => done.exc.retry_after = Null
               /\ (h.present /\ ~float_raises(h.value)) =>
                      done.exc.retry_after = float(h.value)]_vars

\* C13: validate_session() answered 200 sets authenticated and returns true;
\* answered any other status it clears authenticated and raises
\* AuthenticationError; on a transport failure it raises ApiConnectionError and
\* leaves authenticated as it was.
C13_ValidateSession ==
    [][\A t \in Tasks :
         (task[t].pc = "validate" /\ Arrived(t) /\ task'[t] # task[t]) =>
           LET resp == task[t].resp
               done == task'[t]
           IN  /\ Idle(t)'
               /\ csrf_token' = csrf_token
               /\ IF resp.kind = "error"
                  THEN /\ done.outcome = "ApiConnectionError"
                       /\ authenticated' = authenticated
                  ELSE IF resp.status = 200
                  THEN authenticated' /\ done.outcome = "ok"
                  ELSE ~authenticated' /\ done.outcome = "AuthenticationError"]_vars

\* a session that authenticate() had established was found invalid (HTTP 500)
C13_Witness ==
    \E t \in Tasks :
        /\ task[t].op = "validate" /\ Idle(t)
        /\ task[t].resp.status = 500
        /\ task[t].outcome = "AuthenticationError"
        /\ ~authenticated /\ csrf_token # Null

Sleepers == {t \in Tasks : task[t].pc = "sleep"}
Blocked(t) == task[t].pc \in {"lockwait", "sleep"}
\* the step in which acquire() returns to task t
AcquireReturns(t) == task[t].pc # "returned" /\ task'[t].pc = "returned"

\* C14: with any tasks calling acquire() concurrently, two returns of acquire()
\* are at least min_interval apart, and at most one task is inside the section
\* guarded by the lock (only its holder sleeps there).
C14_ThrottleSpacing ==
    /\ [](/\ Cardinality(Sleepers) <= 1
          /\ \A t \in Tasks : throttle_lock = t <=> t \in Sleepers)
    /\ [][\A t \in Tasks :
            AcquireReturns(t) => (since_return = Null \/ since_return >= MinInterval)]_vars

\* two tasks are past acquire(), a third one sleeps inside it
C14_Witness ==
    \E t, u, v \in Tasks :
        /\ t # u
        /\ task[t].pc = "returned" /\ task[u].pc = "returned"
        /\ task[v].pc = "sleep" /\ throttle_lock = v
        /\ since_return = 1

\* C15: every acquire() call comes to its end: a task waiting for the lock or
\* sleeping is admitted after a finite wait unless it is cancelled, and a
\* cancelled task leaves neither the lock held nor itself in the queue.
C15_AcquireEnds ==
    /\ \A t \in Tasks : Blocked(t) ~> ~Blocked(t)
    /\ [](\A t \in Tasks :
            ~Blocked(t) => /\ throttle_lock # t
                           /\ \A i \in DOMAIN waiters : waiters[i] # t)

\* a sleeper was cancelled; a task that queued behind it has returned
C15_Witness ==
    \E t, u \in Tasks :
        /\ t # u
        /\ Idle(u) /\ task[u].outcome = "CancelledError"
        /\ task[t].pc = "returned"
        /\ throttle_lock = Free /\ waiters = <<>>

\* C16 (as claimed): every HTTP request of the client, those of authenticate()
\* and validate_session() included, goes out right after an acquire() of the
\* client's throttle.
C16_EveryRequestThrottled ==
    \A t \in Tasks : \A i \in DOMAIN task[t].log :
        IsHttp(task[t].log[i]) => (i > 1 /\ task[t].log[i - 1] = "acquire")

\* reading the answers one paginated call got: the events of an answer, and
\* whether it is an object that carries a since value
Front(q) == SubSeq(q, 1, Len(q) - 1)
Last(q)  == q[Len(q)]
EventsOf(resp)     == IF resp.status = 204 THEN <<>> ELSE resp.events
CarriesSince(resp) == resp.status # 204 /\ ~resp.bare /\ resp.since # Null
RECURSIVE ConcatEvents(_)
ConcatEvents(answers) ==
    IF answers = <<>> THEN <<>>
    ELSE ConcatEvents(Front(answers)) \o EventsOf(Last(answers))
RECURSIVE LastCursor(_, _)
LastCursor(since, answers) ==
    IF answers = <<>> THEN since
    ELSE IF CarriesSince(Last(answers)) THEN Last(answers).since
    ELSE LastCursor(since, Front(answers))

GetEvents(t)   == task[t].op = "get_events"
GetEventsOk(t) == GetEvents(t) /\ Idle(t) /\ task[t].outcome = "ok"

\* C17 (amended): the paginated async_get_events returns the events of all the
\* answers it got, concatenated in the order of the answers, and as cursor the
\* since value of the last answer that carried one, or its since argument when
\* no answer carried one; it returns on the first answer that is not an object
\* with chunk true.
C17_PagedResult ==
    \A t \in Tasks :
        GetEventsOk(t) =>
            /\ task[t].got # <<>>
            /\ task[t].all_events = ConcatEvents(task[t].got)
            /\ task[t].last_since = LastCursor(task[t].asked[1], task[t].got)
            /\ ~(Last(task[t].got).chunk /\ ~Last(task[t].got).bare)

\* three chunks; the second carries since 2, the final one carries none: the
\* cursor returned is 2
C17_Witness ==
    \E t \in Tasks :
        /\ GetEventsOk(t)
        /\ Len(task[t].got) = 3
        /\ task[t].got[1].chunk /\ task[t].got[2].chunk /\ ~task[t].got[3].chunk
        /\ task[t].got[2].since = 2 /\ task[t].got[3].since = Null
        /\ Len(task[t].all_events) = 3
        /\ task[t].all_events[1].id = "A" /\ task[t].all_events[2].id = "B"
        /\ task[t].last_since = 2

\* C17 (as claimed): the cursor returned is the since value of the final
\* answer, or the since argument when the answer is a bare list.
C17_CursorOfFinalAnswer ==
    \A t \in Tasks :
        (GetEventsOk(t) /\ Last(task[t].got).status = 200) =>
            /\ task[t].all_events = ConcatEvents(task[t].got)
            /\ task[t].last_since = IF Last(task[t].got).bare THEN task[t].asked[1]
                                    ELSE Last(task[t].got).since

\* C18 (as claimed): one paginated call sends one request per chunk; each
\* follow-up request carries the since of the answer before it, and the since
\* values sent advance (none is absent or smaller than the one before); the
\* loop goes on exactly while the answer has chunk true.
C18_SinceAdvances ==
    \A t \in Tasks :
        GetEvents(t) =>
            LET asked == task[t].asked
                got   == task[t].got
                n     == Count(task[t].log, "GET events")
            IN  /\ Len(got) <= n /\ n <= Len(got) + 1 /\ n <= Len(asked)
                /\ \A i \in 2..Len(asked) :
                       /\ got[i - 1].chunk
                       /\ asked[i] = got[i - 1].since
                       /\ asked[i] # Null
                       /\ asked[i - 1] # Null => asked[i] >= asked[i - 1]
                /\ GetEventsOk(t) => ~Last(got).chunk

\* C19 (as claimed): a refresh() fetches the chunks of a split answer up to the
\* final one: it does not end successfully on an answer that announces more.
C19_RefreshFetchesAllChunks ==
    \A c \in Coords : RefreshOk(c) => ~task[c].resp.chunk

\* C20 (as claimed): the first sync of a coordinator is sent without since, and
\* the sync after a successful one is called with the cursor that one returned
\* (the since value of its answer).
C20_CursorIsWatermark ==
    [][\A c \in Coords :
         (task'[c] # task[c] /\ Idle(c)) =>
           /\ task[c].op = "none" => task'[c].since = Null
           /\ RefreshOk(c) =>
                task'[c].since = LastCursor(task[c].since, <<task[c].resp>>)]_vars

-----------------------------------------------------------------------------
(* Reading a calendar view *)

Queried(c)    == task[c].op = "entity.async_get_events"
ExpandCall(c) == task[c].op = "_expand_recurring"
Expanded(c)   == ExpandCall(c) /\ task[c].outcome = "ok"
\* the event an occurrence of the view belongs to
EventOf(c, occ) == events[c][occ.uid.id]
\* the occurrences of the view that belong to the stored event id
Returned(c, id) == {i \in DOMAIN task[c].ret : task[c].ret[i].uid.id = id}
Range(q)        == {q[i] : i \in DOMAIN q}
\* the instants the window of the call starts and ends at
WindowStart(c) == timestamp(task[c].args.start_date)
WindowEnd(c)   == timestamp(task[c].args.end_date)
\* the event passes the window filter
InWindow(c, ev) == ev.start_at < WindowEnd(c) /\ ev.end_at > WindowStart(c)

\* the RRULE entries of an event, and whether rrulestr accepts one
RulesOf(ev)  == {i \in DOMAIN ev.recurrences : ev.recurrences[i].prefix = "RRULE:"}
Parses(rule) == ~rrulestr_raises(_fix_rrule_until_tz(rule))
RulesParse(ev)   == RulesOf(ev) # {} /\ \A i \in RulesOf(ev) : Parses(ev.recurrences[i])
NoRuleParses(ev) == \A i \in RulesOf(ev) : ~Parses(ev.recurrences[i])
\* the start instants the rules of an event generate
RuleInstants(ev) ==
    {timestamp(occ) :
        occ \in UNION {rrule(_fix_rrule_until_tz(ev.recurrences[i]),
                             fromtimestamp(ev.start_at, ev.start_timezone)) :
                          i \in RulesOf(ev)}}
\* the values of the EXDATE entries of an event, and the instants those name
\* that are dates
ExParts(ev) ==
    UNION {Range(ev.recurrences[i].parts) :
              i \in {j \in DOMAIN ev.recurrences : ev.recurrences[j].prefix = "EXDATE:"}}
ExInstants(ev) ==
    {IF part.kind = "utc" THEN part.hour
     ELSE timestamp(Datetime(part.hour, ev.start_timezone)) :
        part \in {x \in ExParts(ev) : x.kind \in {"utc", "naive"}}}

\* C22: a window query returns a stored non-recurring event, as its one mapped
\* occurrence, if and only if its start instant is before the end of the
\* window and its end instant after the start of the window; of a recurring
\* event it returns what the expansion over the window gives, whatever the
\* event's own start and end.
C22_WindowFilter ==
    \A c \in Coords :
        Queried(c) =>
            \A id \in DOMAIN events[c] :
                LET ev   == events[c][id]
                    mine == {task[c].ret[i] : i \in Returned(c, id)}
                IN  IF is_recurring(ev)
                    THEN _expand_recurring_exception(ev) = "none" =>
                            mine = Range(_expand_recurring(ev, task[c].args.start_date,
                                                           task[c].args.end_date))
                    ELSE /\ Returned(c, id) # {} <=> InWindow(c, ev)
                         /\ Cardinality(Returned(c, id)) <= 1
                         /\ mine \subseteq {_map_event(ev)}

\* the window of day 1 returns the event A, which fills that day, and after
\* it the event B, which starts later in it
C22_Witness ==
    \E c \in Coords :
        /\ Queried(c)
        /\ DOMAIN events[c] = {"A", "B"}
        /\ ~is_recurring(events[c]["A"])
        /\ events[c]["A"].start_at = Day /\ events[c]["A"].end_at = 2 * Day
        /\ WindowStart(c) = Day /\ WindowEnd(c) = 2 * Day
        /\ Len(task[c].ret) = 2
        /\ task[c].ret[1].uid.id = "A" /\ task[c].ret[2].uid.id = "B"

\* C23 (as claimed): every occurrence a window query returns, mapped or
\* expanded, timed or all-day, ends after it starts.
C23_EndAfterStart ==
    \A c \in Coords :
        Queried(c) =>
            \A i \in DOMAIN task[c].ret : Lt(task[c].ret[i].start, task[c].ret[i].end)

\* C24 (as claimed): every occurrence a window query returns of an all-day
\* event with start_at equal to end_at ends on the day after the day it
\* starts on.
C24_SingleDay ==
    \A c \in Coords :
        Queried(c) =>
            \A i \in DOMAIN task[c].ret :
                LET occ == task[c].ret[i]
                    ev  == EventOf(c, occ)
                IN  (ev.all_day /\ ev.start_at = ev.end_at) =>
                        occ.end = plus_days(occ.start, 1)

\* the inclusive day span of an all-day event: the days from the date of
\* start_at to the date of end_at
DaySpan(ev) ==
    _ts_to_date(ev.end_at, ev.end_timezone).day
        - _ts_to_date(ev.start_at, ev.start_timezone).day

\* C25 (as claimed): every occurrence a window query returns of an all-day
\* event (here: one stored with one zone for both ends) ends, exclusively, on
\* the day after its inclusive end date: its start date plus the inclusive
\* day span of the event plus one day.
C25_ExclusiveEnd ==
    \A c \in Coords :
        Queried(c) =>
            \A i \in DOMAIN task[c].ret :
                LET occ == task[c].ret[i]
                    ev  == EventOf(c, occ)
                IN  (ev.all_day /\ ev.start_timezone = ev.end_timezone
                                /\ DaySpan(ev) >= 0) =>
                        occ.end = plus_days(occ.start, DaySpan(ev) + 1)

\* C26 (as claimed): a window query returns an event that is handed to the
\* expansion and has no RRULE entry that parses only if the event passes the
\* window filter, and then as its one mapped occurrence.
C26_FallbackFiltered ==
    \A c \in Coords :
        Queried(c) =>
            \A id \in DOMAIN events[c] :
                LET ev == events[c][id]
                IN  (is_recurring(ev) /\ NoRuleParses(ev)) =>
                        /\ Returned(c, id) # {} => InWindow(c, ev)
                        /\ \A i \in Returned(c, id) : task[c].ret[i] = _map_event(ev)

\* the event without the EXDATE values that are no dates
RECURSIVE Dates(_)
Dates(parts) ==
    IF parts = <<>> THEN <<>>
    ELSE IF Head(parts).kind \in {"bad", "overflow"} THEN Dates(Tail(parts))
    ELSE <<Head(parts)>> \o Dates(Tail(parts))
WithoutBadParts(ev) ==
    [ev EXCEPT !.recurrences =
        [i \in DOMAIN ev.recurrences |->
            [ev.recurrences[i] EXCEPT !.parts = Dates(@)]]]

\* C27 (as claimed): no call of expand ends with an exception; when one RRULE
\* entry fails to parse the result is the single mapped occurrence, whatever
\* the other entries; an EXDATE value that fails to parse is dropped alone:
\* the result is that of the event without it.
C27_ParseFailures ==
    \A c \in Coords :
        ExpandCall(c) =>
            LET ev == events[c][task[c].args.id]
            IN  /\ task[c].outcome = "ok"
                /\ (\E i \in RulesOf(ev) : ~Parses(ev.recurrences[i])) =>
                       task[c].ret = <<_map_event(ev)>>
                /\ task[c].ret = _expand_recurring(WithoutBadParts(ev),
                                     task[c].args.start_date, task[c].args.end_date)

\* C28: for an event whose rules parse, expand returns one occurrence for each
\* start instant the rules generate that lies in the window, both ends
\* included, and is not the instant of an EXDATE value, and no other; in
\* ascending order of the start instants.
C28_ExpandExact ==
    \A c \in Coords :
        (Expanded(c) /\ RulesParse(events[c][task[c].args.id])) =>
            LET ev   == events[c][task[c].args.id]
                ret  == task[c].ret
                want == {t \in RuleInstants(ev) :
                            /\ WindowStart(c) <= t /\ t <= WindowEnd(c)
                            /\ t \notin ExInstants(ev)}
            IN  /\ {ret[i].uid.suffix : i \in DOMAIN ret} = want
                /\ Len(ret) = Cardinality(want)
                /\ \A i \in DOMAIN ret :
                       /\ ret[i].uid.id = ev.id
                       /\ ~ev.all_day => timestamp(ret[i].start) = ret[i].uid.suffix
                       /\ ev.all_day  =>
                            ret[i].start = date(fromtimestamp(ret[i].uid.suffix,
                                                              ev.start_timezone))
                /\ \A i, j \in DOMAIN ret : i < j => ret[i].uid.suffix < ret[j].uid.suffix

\* a daily event from the first midnight on with the second midnight excluded,
\* expanded over the days 1 to 3, both of which bounds are occurrences: the
\* first and the third midnight are returned
C28_Witness ==
    \E c \in Coords :
        /\ Expanded(c)
        /\ events[c]["A"].recurrences = <<Daily, ExDate(<<SkipUtc>>)>>
        /\ events[c]["A"].start_at = Day /\ events[c]["A"].start_timezone = "UTC"
        /\ WindowStart(c) = Day /\ WindowEnd(c) = 3 * Day
        /\ Len(task[c].ret) = 2
        /\ task[c].ret[1].uid.suffix = Day /\ task[c].ret[2].uid.suffix = 3 * Day

CallsMutation(e) ==
    /\ task[e].op = "none"
    /\ task'[e].op \in {"entity.async_create_event", "entity.async_update_event"}

\* C30: a create or update whose data _kwargs_to_mutation rejects ends in the
\* step that calls it, with the conversion's exception: no request was logged
\* or is in flight, no refresh was requested, and the coordinator's store and
\* cursor (and the client's session state) are what they were.
C30_RejectedBeforeRequest ==
    [][\A e \in Entities :
          (CallsMutation(e) /\ _kwargs_to_mutation(task'[e].args).raised # "none") =>
              LET exc == _kwargs_to_mutation(task'[e].args).raised
              IN  /\ task'[e].pc = "idle"
                  /\ task'[e].outcome = exc
                  /\ task'[e].log = <<exc>>
                  /\ task'[e].req = NoReq
                  /\ events' = events
                  /\ last_sync_ms' = last_sync_ms
                  /\ authenticated' = authenticated
                  /\ csrf_token' = csrf_token
                  /\ uuid_calls' = uuid_calls]_vars

\* a create of a timed event without an end was refused with ValueError next
\* to a store that holds a synced event
C30_Witness ==
    \E e \in Entities :
        /\ task[e].op = "entity.async_create_event"
        /\ task[e].outcome = "ValueError"
        /\ task[e].args = [NoData EXCEPT !["start_date_time"] = Obj(Datetime(Day + 11, "UTC"))]
        /\ events["c1"] # EmptyStore
        /\ last_sync_ms["c1"] = 1

\* the step in which task l calls the library's async_create_event
CallsLibCreate(l) ==
    /\ task[l].pc = "idle"
    /\ task'[l].op = "lib.async_create_event"
    /\ task'[l] # task[l]

\* C21: the library's async_create_event makes a body of the mutation's
\* fields and an id uuid4 made in this call, which no earlier call had; its
\* attendees are the caller's if there are any, else the client's user id
\* alone if that is known, else the key is not there; and the body a create
\* request carries is that body.
C21_CreateBody ==
    [][\A l \in LibUsers :
          /\ CallsLibCreate(l) =>
                LET mutation == task'[l].args
                    body     == task'[l].body[1]
                IN  /\ task'[l].body # NoBody
                    /\ body.fields = [mutation EXCEPT !.attendees = <<>>]
                    /\ uuid_calls' = uuid_calls + 1
                    /\ body.id = uuid_calls'
                    /\ body.id > uuid_calls
                    /\ IF mutation.attendees # <<>>
                       THEN body.has_attendees /\ body.attendees = mutation.attendees
                       ELSE IF user_id # Null
                       THEN body.has_attendees /\ body.attendees = <<user_id>>
                       ELSE ~body.has_attendees
          /\ ~CallsLibCreate(l) => uuid_calls' = uuid_calls
          /\ task'[l].req.kind = "POST events" => task'[l].req.body = task'[l].body]_vars

\* the second create of a client that knows its user id (7) is in flight: no
\* attendees were given, the body carries the second id and the user alone
C21_Witness ==
    \E l \in LibUsers :
        /\ task[l].op = "lib.async_create_event"
        /\ task[l].req.kind = "POST events"
        /\ user_id = 7
        /\ task[l].args.attendees = <<>>
        /\ task[l].req.body[1].id = 2
        /\ task[l].req.body[1].attendees = <<7>>

-----------------------------------------------------------------------------
(* Reading a rule text *)

FixCall(c) == task[c].op = "_fix_rrule_until_tz"
\* the parts of a text between its semicolons
RECURSIVE Split(_)
Split(text) ==
    LET first == NotSemicolons(text)
    IN  IF Len(first) = Len(text) THEN <<text>>
        ELSE <<first>> \o Split(SubSeq(text, Len(first) + 2, Len(text)))
\* where UNTIL= stands in a part, and the value after the first of these
KeyAt(part) ==
    {i \in DOMAIN part : startswith(SubSeq(part, i, Len(part)), UntilKey)}
ValueOf(part) ==
    SubSeq(part, (CHOOSE i \in KeyAt(part) : \A j \in KeyAt(part) : i <= j)
                     + Len(UntilKey), Len(part))
HasUntil(part) == KeyAt(part) # {} /\ ValueOf(part) # <<>>
IsBare(val)    == ~Contains(val, "T") /\ ~endswith(val, "Z")
\* an UNTIL value as rrulestr reads it: a UTC time when it ends in Z, else a
\* time without zone when it has a time part, else a bare date
UntilForm(val) ==
    IF endswith(val, "Z") THEN "utc" ELSE IF Contains(val, "T") THEN "local" ELSE "bare"

\* C31: _fix_rrule_until_tz turns every part of the rule text with a value
\* after UNTIL= that has no T and does not end in Z into that part followed by
\* T000000Z, which rrulestr reads as a UTC time, and leaves every other part
\* as it is; applied to its own result it changes nothing; and an event whose
\* rule carries a bare UNTIL date is expanded without an exception into the
\* starts its rule generates in the window, each with the suffixed id, not
\* into the one mapped event of the fallback.
C31_FixUntil ==
    \A c \in Coords :
        /\ FixCall(c) =>
             LET parts == Split(task[c].args)
                 out   == Split(task[c].ret)
             IN  /\ Len(out) = Len(parts)
                 /\ \A i \in DOMAIN parts :
                        IF HasUntil(parts[i]) /\ IsBare(ValueOf(parts[i]))
                        THEN /\ out[i] = parts[i] \o UtcMidnight
                             /\ UntilForm(ValueOf(out[i])) = "utc"
                             /\ _fix_rrule_until_tz(DailyUntil("bare")).until.form = "utc"
                        ELSE /\ out[i] = parts[i]
                             /\ HasUntil(parts[i]) =>
                                  LET form == UntilForm(ValueOf(parts[i]))
                                  IN  _fix_rrule_until_tz(DailyUntil(form)).until.form = form
                 /\ re_sub_until(task[c].ret) = task[c].ret
        /\ (ExpandCall(c) /\ events[c]["A"].recurrences = <<DailyUntil("bare")>>) =>
             LET ev   == events[c]["A"]
                 ret  == task[c].ret
                 want == {t \in RuleInstants(ev) :
                             WindowStart(c) <= t /\ t <= WindowEnd(c)}
             IN  /\ task[c].outcome = "ok"
                 /\ Len(ret) = Cardinality(want)
                 /\ {ret[i].uid.suffix : i \in DOMAIN ret} = want

\* RRULE:FREQ=WEEKLY;UNTIL=22;BYDAY=TU has become
\* RRULE:FREQ=WEEKLY;UNTIL=22T000000Z;BYDAY=TU
C31_Witness ==
    \E c \in Coords :
        /\ FixCall(c)
        /\ task[c].args = RulePrefix \o Join(<<FreqPart, UntilKey \o <<"2", "2">>, ByDayPart>>)
        /\ task[c].ret = RulePrefix \o Join(<<FreqPart,
                                              UntilKey \o <<"2", "2">> \o UtcMidnight,
                                              ByDayPart>>)

-----------------------------------------------------------------------------
(* The order of the steps of a request *)

\* task t starts a _request in this step
StartsRequest(t) ==
    /\ Idle(t) /\ task'[t] # task[t] /\ task'[t].op = "request"

\* C32: a _request first acquires the throttle, then asks for the headers,
\* then sends: it goes on only from acquire(), whose return is at least
\* min_interval after the one before and sets the time of the last request;
\* what it does then depends on the Auth Manager as it is at that moment: if
\* get_headers raises, the request ends with AuthenticationError with nothing
\* sent, else the HTTP request goes out; and no request is sent in any other
\* step.
C32_RequestOrder ==
    [][\A t \in Callers :
          /\ StartsRequest(t) =>
                \/ task'[t].pc \in {"lockwait", "sleep"} /\ task'[t].log = <<"_request">>
                \/ LeavesThrottle(t)
          /\ LeavesThrottle(t) =>
                /\ since_return = Null \/ since_return >= MinInterval
                /\ idle_time' = 0 /\ since_return' = 0
                /\ throttle_lock' = Free
                /\ IF get_headers_raises(World)
                   THEN /\ Idle(t)' /\ task'[t].outcome = "AuthenticationError"
                        /\ task'[t].req = NoReq
                        /\ task'[t].log = <<"_request", "acquire", "AuthenticationError">>
                   ELSE /\ task'[t].pc = "inflight"
                        /\ task'[t].req.kind \in {"GET api", "POST api"}
                        /\ task'[t].log = <<"_request", "acquire", task'[t].req.kind>>
          /\ (task'[t].op = "request" /\ task'[t].req # task[t].req /\ task'[t].req # NoReq)
                => LeavesThrottle(t)]_vars

\* nobody is logged in: one request has consumed a slot and failed with
\* AuthenticationError, the next one sleeps in the throttle for its slot
C32_Witness ==
    \E t, u \in Callers :
        /\ t # u
        /\ ~authenticated
        /\ task[t].op = "request" /\ Idle(t)
        /\ task[t].log = <<"_request", "acquire", "AuthenticationError">>
        /\ task[u].op = "request" /\ task[u].pc = "sleep" /\ throttle_lock = u
        /\ idle_time < MinInterval

-----------------------------------------------------------------------------
(* The merge and the order of delivery *)

\* the step in which coordinator c merges the batch it received
Merges(c) ==
    /\ Refreshing(c) /\ task[c].pc = "inflight" /\ Arrived(c)
    /\ task'[c].pc = "idle" /\ task'[c].outcome = "ok"

\* C33: no refresh replaces a stored event by a version of the same id with a
\* smaller updated_at, and an id whose tombstone is in a batch is not in the
\* store after the merge because of an older version that stands later in that
\* batch.
C33_NewestVersionWins ==
    [][\A c \in Coords :
          Merges(c) =>
             LET batch == task[c].resp.events
             IN  /\ \A k \in DOMAIN events[c] \cap DOMAIN events'[c] :
                        (events[c][k].updated_at # Null /\ events'[c][k].updated_at # Null)
                            => events'[c][k].updated_at >= events[c][k].updated_at
                 /\ \A i, j \in DOMAIN batch :
                        (/\ i < j /\ batch[i].id = batch[j].id
                         /\ is_deleted(batch[i]) /\ ~is_deleted(batch[j])
                         /\ batch[i].updated_at # Null /\ batch[j].updated_at # Null
                         /\ batch[j].updated_at < batch[i].updated_at)
                            => batch[i].id \notin DOMAIN events'[c]]_vars

-----------------------------------------------------------------------------
(* Coordinators on one client *)

\* C34: with two coordinators on one client, the session dropped, and a
\* server that accepts the credentials and answers with success every request
\* sent in a session begun by a login, no refresh() ends otherwise than with
\* success.
C34_SharedReauth ==
    \A c \in Sharers : (Refreshing(c) /\ Idle(c)) => task[c].outcome = "ok"

-----------------------------------------------------------------------------
(* The retry after a reauthentication *)

\* C35: a refresh() whose retry of the sync call, after a successful
\* authenticate(), failed with AuthenticationError has ended with
\* ConfigEntryAuthFailed, and no refresh() ends with AuthenticationError.
C35_RetryAuthFailed ==
    \A c \in Coords :
        (Refreshing(c) /\ Idle(c)) =>
            /\ Results(task[c].log) =
                   <<"AuthenticationError", "returned", "AuthenticationError">>
                   => task[c].outcome = "ConfigEntryAuthFailed"
            /\ task[c].outcome # "AuthenticationError"

-----------------------------------------------------------------------------
(* The state of the Auth Manager *)

\* C36: whenever the Auth Manager is authenticated it holds a CSRF token, so
\* that get_headers raises exactly when it is not authenticated.
C36_AuthenticatedHoldsToken ==
    /\ authenticated => csrf_token # Null
    /\ get_headers_raises(World) <=> ~authenticated


\* the step in which the authenticate() call of task t fails
AuthenticateFails(t) ==
    /\ Authenticating(t) /\ task[t].pc \in {"fetch1", "put", "fetch2"}
    /\ Idle(t)' /\ task'[t].outcome # "ok"

\* C37: when an authenticate() call fails, at whichever of its steps, the Auth
\* Manager is unauthenticated afterwards, whatever it was before the call.
C37_FailedLoginUnauthenticated ==
    [][\A t \in Callers : AuthenticateFails(t) => ~authenticated']_vars

-----------------------------------------------------------------------------
(* All-day events from the service call to the view and back *)

\* the start and the end value of the data of a service call
StartOf(data) ==
    or(or(or(data["start_date_time"], data["start_date"]), data["dtstart"]), data["start"])
EndOf(data) ==
    or(or(or(data["end_date_time"], data["end_date"]), data["dtend"]), data["end"])
\* the call of task e was given a start date and a later end date, and its
\* mutation was made
AllDayCall(e) ==
    /\ task[e].op \in {"entity.async_create_event", "entity.async_update_event"}
    /\ task[e].body # NoBody
    /\ task[e].body[1].fields.all_day
    /\ StartOf(task[e].args).type = "date" /\ EndOf(task[e].args).type = "date"
    /\ Lt(StartOf(task[e].args).dt, EndOf(task[e].args).dt)
\* the event the server stores for a mutation
Stored(fields) ==
    StoredEvent("A", fields.all_day, fields.start_at, fields.end_at,
                <<fields.start_timezone, fields.end_timezone>>, <<>>)
\* the date one day before e, or s if that is later
InclusiveEnd(s, e) == IF Lt(plus_days(e, -1), s) THEN s ELSE plus_days(e, -1)

\* the mutation of an all-day call has end_at >= start_at, and its end is the
\* midnight of max(s, e - 1 day)
AllDayEndIsInclusive ==
    \A e \in Entities :
        AllDayCall(e) =>
            LET fields == task[e].body[1].fields
                start  == StartOf(task[e].args).dt
                end    == EndOf(task[e].args).dt
            IN  /\ fields.end_at >= fields.start_at
                /\ fields.start_at = timestamp(combine(start))
                /\ fields.end_at = timestamp(combine(InclusiveEnd(start, end)))

\* C38: the mutation made from a start date s and an exclusive end date
\* e > s, stored and mapped back by _map_event, gives the start s and the end
\* e again; and the mutation has end_at >= start_at, with as end the date
\* max(s, e - 1 day).
C38_AllDayRoundTrip ==
    /\ AllDayEndIsInclusive
    /\ \A e \in Entities :
          AllDayCall(e) =>
              LET back == _map_event(Stored(task[e].body[1].fields))
              IN  /\ back.start = StartOf(task[e].args).dt
                  /\ back.end = EndOf(task[e].args).dt

-----------------------------------------------------------------------------
(* All-day events in a window query *)

\* a stored all-day event without rules, kept in UTC from one midnight to
\* another: the dates of its occurrence are then the same in every reading
PlainAllDay(ev) ==
    /\ ev.all_day /\ ~is_recurring(ev)
    /\ ev.start_timezone = "UTC" /\ ev.end_timezone = "UTC"
    /\ ev.start_at % Day = 0 /\ ev.end_at % Day = 0

\* C39: a window query returns a non-recurring all-day event if and only if
\* the days of its mapped occurrence, from the midnight of its start date to
\* the midnight of its exclusive end date, overlap the window; so an event of
\* one day is returned for the window that starts with that day.
C39_AllDayInWindow ==
    \A c \in Coords :
        Queried(c) =>
            \A id \in DOMAIN events[c] :
                PlainAllDay(events[c][id]) =>
                    LET occ == _map_event(events[c][id])
                    IN  Returned(c, id) # {} <=>
                            /\ timestamp(combine(occ.start)) < WindowEnd(c)
                            /\ timestamp(combine(occ.end)) > WindowStart(c)

-----------------------------------------------------------------------------
(* The HTTP session of a client *)

Closed(t)  == \E i \in DOMAIN task[t].log : task[t].log[i] = "session.close"
IsSetup(t) == task[t].log # <<>> /\ task[t].log[1] = "async_setup_entry"
IsFlow(t)  == task[t].log # <<>> /\ task[t].log[1] = "async_step_user"

\* C40: a setup of the config entry that has ended with an error has closed
\* the session of its client; a config flow step that has ended, in whatever
\* way, has closed the session of its client; and no client closes a session
\* it was given.
C40_SessionClosed ==
    \A t \in Tasks :
        /\ (IsSetup(t) /\ Idle(t) /\ task[t].outcome # "ok") => Closed(t)
        /\ (IsFlow(t) /\ Idle(t)) => Closed(t)
        /\ (task[t].op = "async_close" /\ ~task[t].args.owns_session) => ~Closed(t)

====
